---- MODULE Spec2Model ----
(***************************************************************************)
(* A model of the board engine, the draw policy and the turn state machine *)
(* of Mappazzone (board.py, locations.py, options.py, game.py) and of the  *)
(* event handlers of its game window (ui.py).                              *)
(*                                                                         *)
(* Coordinates and the tolerance are kept in tenths of a degree, so that   *)
(* the option value 0.1 is the integer 1 and 5.0 is the integer 50.        *)
(***************************************************************************)
EXTENDS Integers, Sequences, FiniteSets, TLC

VARIABLES opts, pc, deck, board, hands, placed, turn, rounds, last, pre, turnLog

vars == <<opts, pc, deck, board, hands, placed, turn, rounds, last, pre, turnLog>>

(***************************************************************************)
(* Bounds of the model.                                                    *)
(***************************************************************************)
\* Number of distinct locations in the universe (ids 1..NLoc).
NLoc == 5
\* Largest deck handed to Game.__init__ (the locations 1..MaxDeck).
MaxDeck == 4
\* The 'grid size' handed to Board.__init__ (the board has 1 + 2*(size//2) cells per side).
GridSize == 2
\* Largest number of player names handed to Game.__init__.
MaxPlayers == 2
\* Calls that would complete a round are not issued beyond this round counter.
MaxRounds == 3
\* A placement of a location that is not in the hand is issued only below this many occupied cells.
MaxPlaced == 2
\* Board-level calls fill an empty cell only below this many occupied cells.
MaxCells == 3
\* Board-level calls use the locations 1..MaxBoardLocs.
MaxBoardLocs == 3
\* Largest hand size handed to to_draw as a pure function.
MaxHand == 12
\* Longest list of violated directions handed to to_draw as a pure function.
MaxMistakes == 3

(***************************************************************************)
(* locations.py: Direction, Location, Location.before                      *)
(***************************************************************************)
LONGITUDE == "longitude"
LATITUDE == "latitude"
Direction == {LATITUDE, LONGITUDE}

\* The empty cell (Python's None).
None == 0

Locs == 1..NLoc

\* Longitudes and latitudes of the locations of the universe, in tenths of a degree.
LonTable == <<0, 30, -500, 500, 0, -500, 30, 500>>
LatTable == <<0, -30, 500, 0, -500, 0, 500, 500>>

longitude(l) == LonTable[l]
latitude(l) == LatTable[l]

\* Location.before, on a mutant that compares without the tolerance.
before_at_strict(self, other, direction, tolerance) ==
    IF direction = LONGITUDE
    THEN self.longitude < other.longitude
    ELSE self.latitude > other.latitude

\* Location.before on two Location objects, of which it reads the longitude
\* and the latitude.
before_at(self, other, direction, tolerance) ==
    IF direction = LONGITUDE
    THEN self.longitude < other.longitude \/ self.longitude - other.longitude <= tolerance
    ELSE self.latitude > other.latitude \/ other.latitude - self.latitude <= tolerance

\* The Location object of location l of the universe.
LocationOf(l) == [longitude |-> longitude(l), latitude |-> latitude(l)]

\* Location.before between two locations of the universe.
before(a, b, direction, tolerance) ==
    before_at(LocationOf(a), LocationOf(b), direction, tolerance)

(***************************************************************************)
(* board.py: Board                                                         *)
(***************************************************************************)
\* Board.__init__: the normalised size and the center coordinates.
size_2 == GridSize \div 2
size == 1 + 2 * size_2
center_x == size_2
center_y == size_2

Range == 0..(size - 1)
Cells == Range \X Range

\* Board.__init__, on a mutant that puts `center` at the corner cell.
NewBoard_corner(center) ==
    [c \in Cells |-> IF c = <<0, 0>> THEN center ELSE None]

\* Board.__init__: an empty grid with `center` at the center cell.
NewBoard(center) ==
    [c \in Cells |-> IF c = <<center_x, center_y>> THEN center ELSE None]

\* Board.coords
coords(x, y, centered) ==
    IF centered THEN <<center_x + x, center_y + y>> ELSE <<x, y>>

InBounds(x, y) == x \in Range /\ y \in Range

\* Board.placed
board_placed(grid) == Cardinality({c \in Cells : grid[c] /= None})

\* Board.put / Board.remove (the bounds and occupancy checks are in the callers below).
put(grid, location, x, y) == [grid EXCEPT ![<<x, y>>] = location]
remove(grid, x, y) == put(grid, None, x, y)

\* The nested loops of Board.violations, on a mutant whose outer loops run
\* over n1 and n2.
iteration_free_axis_first(m1, m2, n1, n2) == ((n1 * size + n2) * size + m1) * size + m2

\* The four nested loops of Board.violations run m1 over 0..size-1, m2 over
\* m1..size-1, and n1 and n2 over 0..size-1. iteration(m1, m2, n1, n2) numbers
\* the iterations in the order the loops reach them.
iteration(m1, m2, n1, n2) == ((m1 * size + m2) * size + n1) * size + n2

\* The iteration that checks cell c1 = (x1, y1) against cell c2 = (x2, y2) in
\* `direction`: the columns are m1, m2 for LONGITUDE and the rows for LATITUDE.
iteration_of(c1, c2, direction) ==
    IF direction = LONGITUDE
    THEN iteration(c1[1], c2[1], c1[2], c2[2])
    ELSE iteration(c1[2], c2[2], c1[1], c2[1])

\* Do the loops reach the pair (c1, c2) at all? On a mutant whose inner loop
\* starts at m1 + 1.
loops_reach_strict(c1, c2, direction) ==
    IF direction = LONGITUDE THEN c1[1] < c2[1] ELSE c1[2] < c2[2]

\* Do the loops reach the pair (c1, c2) at all? (m2 starts at m1.)
loops_reach(c1, c2, direction) ==
    IF direction = LONGITUDE THEN c1[1] <= c2[1] ELSE c1[2] <= c2[2]

\* The pairs of cells at which an iteration reaches `return [Invalid(...)]`:
\* both cells are occupied and `first.before(second, ...)` is false. (The
\* `checked` set never holds the current tuple: distinct iterations check
\* distinct tuples, so its `continue` is never taken.)
failing_pairs(grid, direction, tolerance) ==
    LET occupied == {c \in Cells : grid[c] /= None}
    IN  {pr \in occupied \X occupied :
            /\ loops_reach(pr[1], pr[2], direction)
            /\ ~before(grid[pr[1]], grid[pr[2]], direction, tolerance)}

\* The witness Invalid(direction, x1, y1, x2, y2, first, second).
Invalid(grid, pr, direction) ==
    [direction |-> direction,
     x_1 |-> pr[1][1], y_1 |-> pr[1][2], x_2 |-> pr[2][1], y_2 |-> pr[2][2],
     loc1 |-> grid[pr[1]], loc2 |-> grid[pr[2]]]

\* Board.violations(direction): the witness of the first iteration that
\* fails, or [].
violations_dir(grid, direction, tolerance) ==
    LET failing == failing_pairs(grid, direction, tolerance)
    IN  IF failing = {}
        THEN <<>>
        ELSE <<Invalid(grid,
                       CHOOSE pr \in failing : \A other \in failing :
                           iteration_of(pr[1], pr[2], direction)
                               <= iteration_of(other[1], other[2], direction),
                       direction)>>

\* Board.violations(), on a mutant that checks the latitudes only when the
\* longitudes are in order.
violations_short_circuit(grid, tolerance) ==
    IF violations_dir(grid, LONGITUDE, tolerance) /= <<>>
    THEN violations_dir(grid, LONGITUDE, tolerance)
    ELSE violations_dir(grid, LATITUDE, tolerance)

\* Board.violations(): longitude witnesses followed by latitude witnesses.
violations(grid, tolerance) ==
    violations_dir(grid, LONGITUDE, tolerance) \o violations_dir(grid, LATITUDE, tolerance)

directions_of(check) == [i \in 1..Len(check) |-> check[i].direction]

\* Board.try_place, on a mutant that forgets to roll back.
try_place_norollback(grid, location, x, y, tolerance) ==
    IF ~InBounds(x, y) THEN [raised |-> "OutOfBounds", grid |-> grid, result |-> <<>>]
    ELSE IF grid[<<x, y>>] /= None
    THEN [raised |-> "CellOccupied", grid |-> grid, result |-> <<>>]
    ELSE LET placedGrid == put(grid, location, x, y)
             check == violations(placedGrid, tolerance)
         IN  [raised |-> "", grid |-> placedGrid, result |-> directions_of(check)]

\* Board.try_place, on a mutant that overwrites an occupied cell instead of raising.
try_place_overwrite(grid, location, x, y, tolerance) ==
    IF ~InBounds(x, y) THEN [raised |-> "OutOfBounds", grid |-> grid, result |-> <<>>]
    ELSE LET placedGrid == put(grid, location, x, y)
             check == violations(placedGrid, tolerance)
         IN  [raised |-> IF grid[<<x, y>>] /= None THEN "CellOccupied" ELSE "",
              grid |-> IF Len(check) > 0 THEN remove(placedGrid, x, y) ELSE placedGrid,
              result |-> directions_of(check)]

\* Board.try_place, on a mutant that commits nothing.
try_place_nocommit(grid, location, x, y, tolerance) ==
    IF ~InBounds(x, y) THEN [raised |-> "OutOfBounds", grid |-> grid, result |-> <<>>]
    ELSE IF grid[<<x, y>>] /= None
    THEN [raised |-> "CellOccupied", grid |-> grid, result |-> <<>>]
    ELSE LET placedGrid == put(grid, location, x, y)
             check == violations(placedGrid, tolerance)
         IN  [raised |-> "", grid |-> remove(placedGrid, x, y), result |-> directions_of(check)]

\* Board.try_place: the exception raised ("" if none), the grid afterwards and
\* the returned list of directions.
try_place(grid, location, x, y, tolerance) ==
    IF ~InBounds(x, y) THEN [raised |-> "OutOfBounds", grid |-> grid, result |-> <<>>]
    ELSE IF grid[<<x, y>>] /= None
    THEN [raised |-> "CellOccupied", grid |-> grid, result |-> <<>>]
    ELSE LET placedGrid == put(grid, location, x, y)
             check == violations(placedGrid, tolerance)
         IN  [raised |-> "",
              grid |-> IF Len(check) > 0 THEN remove(placedGrid, x, y) ELSE placedGrid,
              result |-> directions_of(check)]

(***************************************************************************)
(* options.py: Options_                                                    *)
(***************************************************************************)
\* The legal values (`choices`) of the options the model reads.
GridSizeChoices == {6, 8, 10}
InitialChoices == {1, 2, 3, 4, 5}
ToleranceChoices == {0, 1, 10, 50, 100}
DrawWhenFailChoices == {1, 2, 3}
StopDrawingChoices == {4, 6, 8, 10}
EndHandChoices == {3, 5, 7, 10}
EndRoundsChoices == {-1, 5, 10, 30, 50, 100}
EndPlacedChoices == {-1, 5, 7, 10}
EmptyDeckChoices == {0, 100, 1000}

\* The default values of Options_._OPTIONS (tolerance 5.0 is 50 tenths).
DefaultOptions ==
    [initial_cities |-> 3, tolerance |-> 50, draw_when_fail |-> 2,
     draw_per_mistake |-> FALSE, stop_drawing |-> 10, end_hand |-> 10,
     end_rounds |-> -1, end_placed |-> -1, empty_deck |-> 0,
     may_swap |-> TRUE, only_sat |-> TRUE]

\* Options_.to_draw, on a mutant without the 'stop drawing' cap.
to_draw_nocap(o, place_result, hand) ==
    LET mistakes == Len(place_result)
    IN  IF mistakes = 0 THEN 0
        ELSE IF o.draw_per_mistake THEN o.draw_when_fail * mistakes
        ELSE o.draw_when_fail

\* Options_.to_draw
to_draw(o, place_result, hand) ==
    LET mistakes == Len(place_result)
        draw == IF mistakes = 0 THEN 0
                ELSE IF o.draw_per_mistake THEN o.draw_when_fail * mistakes
                ELSE o.draw_when_fail
    IN  IF hand + draw > o.stop_drawing
        THEN o.stop_drawing - hand
        ELSE draw

\* Options_.gameover: the reason, or "" when the game goes on.
RECURSIVE scores_reason(_, _, _)
scores_reason(o, scores, i) ==
    IF i > Len(scores) THEN ""
    ELSE IF scores[i] = 0 THEN "hand emptied"
    ELSE IF scores[i] >= o.end_hand THEN "hand too large"
    ELSE scores_reason(o, scores, i + 1)

\* Options_.gameover, on a mutant without the deck rule.
options_gameover_nodeck(o, rnds, scores, nplaced, ndeck) ==
    IF 0 < o.end_rounds /\ o.end_rounds < rnds THEN "rounds exceeded"
    ELSE IF scores_reason(o, scores, 1) /= "" THEN scores_reason(o, scores, 1)
    ELSE IF 0 < o.end_placed /\ o.end_placed <= nplaced THEN "board full"
    ELSE ""

\* `if 0 < end rounds < rounds`, then `for score in scores`, then
\* `if 0 < end placed <= placed`, then `if deck - empty deck <= len(scores)`.
options_gameover(o, rnds, scores, nplaced, ndeck) ==
    IF 0 < o.end_rounds /\ o.end_rounds < rnds THEN "rounds exceeded"
    ELSE IF scores_reason(o, scores, 1) /= "" THEN scores_reason(o, scores, 1)
    ELSE IF 0 < o.end_placed /\ o.end_placed <= nplaced THEN "board full"
    ELSE IF ndeck - o.empty_deck <= Len(scores) THEN "deck exhausted"
    ELSE ""

(***************************************************************************)
(* locations.py: Locations.pick                                            *)
(***************************************************************************)
\* random.sample(range(n), k): every list of k distinct indexes (1-based here).
RECURSIVE sample(_, _)
sample(S, k) ==
    IF k = 0 THEN {<<>>}
    ELSE UNION {{<<i>> \o t : t \in sample(S \ {i}, k - 1)} : i \in S}

\* del self[index]
del_at(s, i) == [j \in 1..(Len(s) - 1) |-> IF j < i THEN s[j] ELSE s[j + 1]]

\* The removal loop, on a mutant that deletes in increasing index order.
RECURSIVE del_all_ascending(_, _)
del_all_ascending(s, I) ==
    IF I = {} THEN s
    ELSE LET low == CHOOSE i \in I : \A j \in I : i <= j
         IN  del_all_ascending(del_at(s, low), I \ {low})

\* for index in sorted(indexes, reverse=True): del self[index]
RECURSIVE del_all(_, _)
del_all(s, I) ==
    IF I = {} THEN s
    ELSE LET top == CHOOSE i \in I : \A j \in I : j <= i
         IN  del_all(del_at(s, top), I \ {top})

SeqRange(s) == {s[i] : i \in 1..Len(s)}

\* Locations.pick(k) for k <= len(self): the possible pairs of the returned
\* list and the remaining deck.
deck_pick(d, k) ==
    {[result |-> [i \in 1..k |-> d[indexes[i]]], deck |-> del_all(d, SeqRange(indexes))] :
        indexes \in sample(1..Len(d), k)}

(***************************************************************************)
(* game.py: Player                                                         *)
(***************************************************************************)
\* list.index(x): the position of the first occurrence.
index_of(s, x) == CHOOSE i \in 1..Len(s) : s[i] = x /\ \A j \in 1..(i - 1) : s[j] /= x

\* Player.play on a mutant that leaves the location in the hand.
hand_keep(hand, location) == hand

\* Player.play on the hand: list.remove(location).
hand_remove(hand, location) == del_at(hand, index_of(hand, location))

\* Player.swap, on a mutant that removes the location and appends the new one.
hand_swap_append(hand, loc_out, loc_in) ==
    Append(del_at(hand, index_of(hand, loc_out)), loc_in)

\* Player.swap on the hand.
hand_swap(hand, loc_out, loc_in) == [hand EXCEPT ![index_of(hand, loc_out)] = loc_in]

(***************************************************************************)
(* game.py: Game                                                           *)
(***************************************************************************)
\* Game.next_player on a mutant that never wraps.
next_turn_nowrap(t, n) == IF t + 1 < n THEN t + 1 ELSE t

\* Game.next_player: the new turn index and the new round counter.
next_turn(t, n) == (t + 1) % n
next_rounds(t, n, r) == IF next_turn(t, n) = 0 THEN r + 1 ELSE r

\* The check at the head of Game.place and Game.swap, on a mutant that only
\* looks the player up.
not_your_turn_anyone(p, t, n) == p \notin 0..(n - 1)

\* `player not in self.players or self.players.index(player) != self.turn`;
\* players are numbered from 0 and the number n stands for a Player object that
\* is not in the list.
not_your_turn(p, t, n) == p \notin 0..(n - 1) \/ p /= t

\* Game.gameover
game_gameover ==
    options_gameover(opts, rounds, [i \in 1..Len(hands) |-> Len(hands[i])],
                     board_placed(board), Len(deck))

\* Game.gameover() in game state g.
GameoverIn(g) ==
    options_gameover(opts, g.rounds, [i \in 1..Len(g.hands) |-> Len(g.hands[i])],
                     board_placed(g.board), Len(g.deck))

\* Options_.may_swap, on a mutant that always allows the swap.
may_swap_always(o) == TRUE

\* Options_.may_swap
may_swap(o) == o.may_swap

\* Options_.only_sat, which Game.pick, Game.swap and Game.place call and
\* options.py does not define: it reads 'only sat' as the other accessors
\* read their option.
only_sat(o) == o.only_sat

\* Board.can_place, which Game.pick calls and board.py does not define: the
\* location is placeable, that is, some empty cell takes it without a
\* violation.
can_place(grid, location, tolerance) ==
    \E c \in Cells :
        /\ grid[c] = None
        /\ Len(violations(put(grid, location, c[1], c[2]), tolerance)) = 0

\* `[l for l in locs if self.board.can_place(l)]`, or `locs` itself.
placeable(o, grid, locs) ==
    IF only_sat(o)
    THEN SelectSeq(locs, LAMBDA l : can_place(grid, l, o.tolerance))
    ELSE locs

\* Game.pick(k), from the head of its loop with `to_draw` locations still to
\* draw and `result` collected: the possible outcomes as (error, returned
\* list, deck). Locations.pick raises when the deck is shorter than to_draw;
\* the locations that were not placeable have left the deck by then.
RECURSIVE game_pick(_, _, _, _, _)
game_pick(o, grid, d, k, result) ==
    IF k <= 0 THEN {[raised |-> "", result |-> result, deck |-> d]}
    ELSE IF k > Len(d)
    THEN {[raised |-> "InsufficientSupply", result |-> <<>>, deck |-> d]}
    ELSE UNION {game_pick(o, grid, pk.deck, k - Len(placeable(o, grid, pk.result)),
                          result \o placeable(o, grid, pk.result))
                : pk \in deck_pick(d, k)}

\* The sort key of Game.results, on a mutant that ranks fewer placed first.
results_key_ascending(score, nplaced) == <<score, nplaced>>

\* `key=lambda e: (e[1], -e[2])` on (player, score, placed_locations).
results_key(score, nplaced) == <<score, 0 - nplaced>>

\* Tuple comparison k1 <= k2 of two keys.
key_le(k1, k2) == k1[1] < k2[1] \/ (k1[1] = k2[1] /\ k1[2] <= k2[2])

\* sorted(): a stable sort, here by inserting each element of `items` after
\* the elements of the sorted prefix whose key is not greater.
RECURSIVE sorted(_, _)
sorted(items, key) ==
    IF Len(items) = 0 THEN <<>>
    ELSE LET front == sorted(SubSeq(items, 1, Len(items) - 1), key)
             e == items[Len(items)]
             keep == Cardinality({i \in 1..Len(front) : key_le(key[front[i]], key[e])})
         IN  SubSeq(front, 1, keep) \o <<e>> \o SubSeq(front, keep + 1, Len(front))

\* Game.results: the players (by index from 1) from the top scorer.
results(hs, pl) ==
    sorted([i \in 1..Len(hs) |-> i],
           [i \in 1..Len(hs) |-> results_key(Len(hs[i]), pl[i])])

\* The handler of Game.place and Game.swap around the draw, on a mutant that
\* raises the error again whatever the option.
draw_error_reraise(o, raised) == raised

\* `except ValueError as e:` around the draw of Game.place and Game.swap: the
\* error is passed over with 'only sat' and raised again without; the result
\* is the error the call raises ("" if none).
draw_error(o, raised) == IF only_sat(o) THEN "" ELSE raised

(***************************************************************************)
(* Observation of the last call: the operation, the error raised ("" when  *)
(* the call returned), what it returned (result) or computed (draw), the   *)
(* hand size handed to to_draw, and its arguments: the player, the         *)
(* location once the call has passed the turn and board checks, the cell   *)
(* of a committed try_place, and what the target position held before the  *)
(* call. `pre` holds the game state before the call.                       *)
(***************************************************************************)
Call(op, who, loc, x, y, raised, result, draw, hand, cell) ==
    [op |-> op, who |-> who, loc |-> loc, x |-> x, y |-> y,
     raised |-> raised, result |-> result, draw |-> draw, hand |-> hand, cell |-> cell]

NoCall == Call("none", 0, None, 0, 0, "", <<>>, 0, 0, "")

\* What a call finds at position (x, y) of the grid.
CellState(grid, x, y) ==
    IF ~InBounds(x, y) THEN "outside"
    ELSE IF grid[<<x, y>>] /= None THEN "occupied" ELSE "empty"

Snapshot ==
    [board |-> board, hands |-> hands, placed |-> placed, deck |-> deck,
     turn |-> turn, rounds |-> rounds]

\* The turn index and round counter before and after the latest next_player
\* calls, at most n + 1 entries for n players.
log_next(log, t, r, n) ==
    LET all == Append(log, <<t, r>>)
    IN  IF Len(all) > n + 1 THEN Tail(all) ELSE all

(***************************************************************************)
(* Game.__init__                                                           *)
(***************************************************************************)
\* `for player in self.players: player.deal(self.pick(self.options.initial()))`
\* from player i on: the possible outcomes as (error, deck, hands).
RECURSIVE deal_initial(_, _, _, _, _)
deal_initial(o, grid, d, hs, i) ==
    IF i > Len(hs) THEN {[raised |-> "", deck |-> d, hands |-> hs]}
    ELSE UNION {
        IF pk.raised /= ""
        THEN {[raised |-> pk.raised, deck |-> pk.deck, hands |-> hs]}
        ELSE deal_initial(o, grid, pk.deck, [hs EXCEPT ![i] = pk.result], i + 1)
        : pk \in game_pick(o, grid, d, o.initial_cities, <<>>)}

\* Game(options, players, locations), where the Init state holds the
\* arguments: `deck` the locations left by Locations.keep and `hands` one
\* empty hand per player name.
Construct ==
    /\ pc = "setup"
    /\ IF Len(hands) = 0
       THEN /\ pc' = "failed"
            /\ last' = Call("init", 0, None, 0, 0, "NoPlayers", <<>>, 0, 0, "")
            /\ UNCHANGED <<deck, board, hands, turnLog>>
       ELSE IF Len(deck) = 0
       THEN \* deck.pick() raises ValueError, which is logged: the object is
            \* returned without `board` and `players`.
            /\ pc' = "noboard"
            /\ last' = Call("init", 0, None, 0, 0, "", <<>>, 0, 0, "")
            /\ UNCHANGED <<deck, board, hands, turnLog>>
       ELSE \* A ValueError of Game.pick is logged as well: the object is returned
            \* with the hands dealt so far.
            \E c \in deck_pick(deck, 1) :
            \E out \in deal_initial(opts, NewBoard(c.result[1]), c.deck, hands, 1) :
                /\ board' = NewBoard(c.result[1])
                /\ deck' = out.deck
                /\ hands' = out.hands
                /\ pc' = "playing"
                /\ last' = Call("init", 0, None, 0, 0, "", <<>>, 0, 0, "")
                /\ turnLog' = <<<<0, 0>>>>
    /\ pre' = Snapshot
    /\ UNCHANGED <<opts, placed, turn, rounds>>

(***************************************************************************)
(* Game.place                                                              *)
(***************************************************************************)
\* The tail of a call that completes: next_player.
Advance(n) ==
    /\ turn' = next_turn(turn, n)
    /\ rounds' = next_rounds(turn, n, rounds)
    /\ turnLog' = log_next(turnLog, turn', rounds', n)

\* Game.place(player, location, x, y): what the call does to the game, and
\* its observation in `last`.
GamePlace(p, location, x, y) ==
    /\ UNCHANGED opts
    /\ \E n \in {Len(hands)}, tp \in {try_place(board, location, x, y, opts.tolerance)} :
       IF not_your_turn(p, turn, n)
       THEN /\ last' = Call("place", p, None, 0, 0, "NotYourTurn", <<>>, 0, 0, "")
            /\ UNCHANGED <<deck, board, hands, placed, turn, rounds, turnLog>>
       ELSE IF tp.raised /= ""
       THEN /\ last' = Call("place", p, None, 0, 0, tp.raised, <<>>, 0, 0, CellState(board, x, y))
            /\ board' = tp.grid
            /\ UNCHANGED <<deck, hands, placed, turn, rounds, turnLog>>
       ELSE IF location \notin SeqRange(hands[p + 1])
       THEN \* Player.play raises after Board.try_place has returned.
            /\ board_placed(board) < MaxPlaced
            /\ last' = Call("place", p, location, 0, 0, "NotInHand", tp.result, 0, 0, CellState(board, x, y))
            /\ board' = tp.grid
            /\ UNCHANGED <<deck, hands, placed, turn, rounds, turnLog>>
       ELSE LET hand1 == hand_remove(hands[p + 1], location)
                k == to_draw(opts, tp.result, Len(hand1))
            IN  /\ board' = tp.grid
                /\ placed' = [placed EXCEPT ![p + 1] = @ + 1]
                /\ \E pk \in game_pick(opts, tp.grid, deck, k, <<>>) :
                   /\ deck' = pk.deck
                   /\ IF pk.raised = ""
                      THEN /\ last' = Call("place", p, location, 0, 0, "", tp.result, k, Len(hand1), CellState(board, x, y))
                           /\ hands' = [hands EXCEPT ![p + 1] = hand1 \o pk.result]
                           /\ Advance(n)
                      ELSE \* No card is dealt; the turn passes unless the error is raised again.
                           /\ hands' = [hands EXCEPT ![p + 1] = hand1]
                           /\ last' = Call("place", p, location, 0, 0, draw_error(opts, pk.raised),
                                           tp.result, k, Len(hand1), CellState(board, x, y))
                           /\ IF draw_error(opts, pk.raised) = ""
                              THEN Advance(n)
                              ELSE UNCHANGED <<turn, rounds, turnLog>>

\* A Game.place call of the driver.
Place(p, location, x, y) ==
    /\ pc = "playing"
    /\ rounds < MaxRounds
    /\ pre' = Snapshot
    /\ UNCHANGED pc
    /\ GamePlace(p, location, x, y)

(***************************************************************************)
(* Game.swap                                                               *)
(***************************************************************************)
\* Game.swap(player, location): what the call does to the game, and its
\* observation in `last`.
GameSwap(p, location) ==
    /\ UNCHANGED <<opts, board, placed>>
    /\ LET n == Len(hands)
       IN
       IF not_your_turn(p, turn, n)
       THEN /\ last' = Call("swap", p, None, 0, 0, "NotYourTurn", <<>>, 0, 0, "")
            /\ UNCHANGED <<deck, hands, turn, rounds, turnLog>>
       ELSE IF ~may_swap(opts)
       THEN /\ last' = Call("swap", p, None, 0, 0, "SwapNotAllowed", <<>>, 0, 0, "")
            /\ UNCHANGED <<deck, hands, turn, rounds, turnLog>>
       ELSE \E pk \in game_pick(opts, board, deck, 1, <<>>) :
            /\ deck' = pk.deck
            /\ IF pk.raised /= ""
               THEN \* No card is swapped; the turn passes unless the error is raised again.
                    /\ UNCHANGED hands
                    /\ last' = Call("swap", p, location, 0, 0, draw_error(opts, pk.raised), <<>>, 1, 0, "")
                    /\ IF draw_error(opts, pk.raised) = ""
                       THEN Advance(n)
                       ELSE UNCHANGED <<turn, rounds, turnLog>>
               ELSE IF location \notin SeqRange(hands[p + 1])
               THEN /\ last' = Call("swap", p, location, 0, 0, "NotInHand", <<>>, 1, 0, "")
                    /\ UNCHANGED <<hands, turn, rounds, turnLog>>
               ELSE /\ last' = Call("swap", p, location, 0, 0, "", <<>>, 1, 0, "")
                    /\ hands' = [hands EXCEPT ![p + 1] = hand_swap(@, location, pk.result[1])]
                    /\ Advance(n)

\* A Game.swap call of the driver.
Swap(p, location) ==
    /\ pc = "playing"
    /\ rounds < MaxRounds
    /\ pre' = Snapshot
    /\ UNCHANGED pc
    /\ GameSwap(p, location)

\* A call on an object that Game.__init__ returned without `board` and
\* `players`: reading `self.players` raises AttributeError.
CallNoBoard(op) ==
    /\ pc = "noboard"
    /\ last' = Call(op, 0, None, 0, 0, "AttributeError", <<>>, 0, 0, "")
    /\ pre' = Snapshot
    /\ UNCHANGED <<opts, pc, deck, board, hands, placed, turn, rounds, turnLog>>

(***************************************************************************)
(* The game: construction, then any sequence of place and swap calls.      *)
(***************************************************************************)
\* The option values the game is constructed with: the smallest legal values
\* of 'initial cities', 'draw when fail' and 'stop drawing', so that a small
\* deck shows every case, and otherwise the defaults but for one entry.
MaxInitial == 2
MaxDrawWhenFail == 2
BaseOptions == [DefaultOptions EXCEPT !.stop_drawing = 4, !.only_sat = FALSE]
GameOptions ==
    {[BaseOptions EXCEPT !.initial_cities = i, !.draw_when_fail = f] :
        i \in {v \in InitialChoices : v <= MaxInitial},
        f \in {v \in DrawWhenFailChoices : v <= MaxDrawWhenFail}}
    \cup {[BaseOptions EXCEPT !.initial_cities = 2, !.draw_when_fail = 1, !.draw_per_mistake = TRUE],
          [BaseOptions EXCEPT !.initial_cities = 1, !.draw_when_fail = 1, !.may_swap = FALSE],
          [BaseOptions EXCEPT !.initial_cities = 1, !.draw_when_fail = 1, !.only_sat = TRUE],
          [BaseOptions EXCEPT !.initial_cities = 2, !.draw_when_fail = 1, !.only_sat = TRUE]}

\* The options of the games over the largest deck.
LargeDeckOptions ==
    {[BaseOptions EXCEPT !.initial_cities = i, !.draw_when_fail = 1] : i \in {1, 2}}

Init ==
    /\ opts \in GameOptions
    /\ pc = "setup"
    /\ deck \in {[i \in 1..d |-> i] : d \in 0..MaxDeck}
    /\ board = NewBoard(None)
    /\ hands \in {[i \in 1..n |-> <<>>] : n \in 0..MaxPlayers}
    /\ Len(deck) = MaxDeck => (Len(hands) = 1 /\ opts \in LargeDeckOptions)
    /\ placed = [i \in 1..Len(hands) |-> 0]
    /\ turn = 0
    /\ rounds = 0
    /\ last = NoCall
    /\ pre = Snapshot
    /\ turnLog = <<>>

\* The calls the driver issues. The current player places a location of their
\* hand, or location 1 (which is in every deck the game is constructed with
\* and need not be in the hand), at every cell of the board and at one cell
\* outside it; they swap the same locations. Any other player makes one
\* call (the turn check does not read the other arguments).
PlayLocs(p) == SeqRange(hands[p + 1]) \cup {1}

PlaceCalls ==
    {c \in (0..(Len(hands) - 1)) \X Locs \X (0..size) \X (0..size) :
        /\ c[1] = turn => c[2] \in PlayLocs(c[1])
        /\ c[1] /= turn => (c[2] = 1 /\ c[3] = 0 /\ c[4] = 0)
        /\ (c[3] = size \/ c[4] = size) => (c[3] = size /\ c[4] = 0)}

SwapCalls ==
    {c \in (0..(Len(hands) - 1)) \X Locs :
        /\ c[1] = turn => c[2] \in PlayLocs(c[1])
        /\ c[1] /= turn => c[2] = 1}

Next ==
    \/ Construct
    \/ \E c \in PlaceCalls : Place(c[1], c[2], c[3], c[4])
    \/ \E c \in SwapCalls : Swap(c[1], c[2])
    \/ \E op \in {"place", "swap"} : CallNoBoard(op)

Spec == Init /\ [][Next]_vars

(***************************************************************************)
(* The board on its own: Board(center, options), then any sequence of put, *)
(* remove and try_place calls.                                             *)
(***************************************************************************)
\* The tolerances the board is constructed with (0.0 and 5.0).
BoardTolerances == {0, 50}

BoardLocs == 1..MaxBoardLocs

InitBoard ==
    /\ opts \in {[DefaultOptions EXCEPT !.tolerance = t] : t \in BoardTolerances}
    /\ pc = "board"
    /\ deck = <<>>
    /\ board \in {NewBoard(center) : center \in BoardLocs}
    /\ hands = <<>>
    /\ placed = <<>>
    /\ turn = 0
    /\ rounds = 0
    /\ last = NoCall
    /\ pre = Snapshot
    /\ turnLog = <<>>

\* A call that fills an empty cell is issued only below MaxCells occupied cells.
MayFill(x, y) ==
    (InBounds(x, y) /\ board[<<x, y>>] = None) => board_placed(board) < MaxCells

\* Board.put(location, x, y, force)
BoardPut(location, x, y, force) ==
    /\ pc = "board"
    /\ MayFill(x, y)
    /\ IF ~InBounds(x, y)
       THEN /\ last' = Call("put", 0, None, 0, 0, "OutOfBounds", <<>>, 0, 0, "")
            /\ UNCHANGED board
       ELSE IF ~force /\ board[<<x, y>>] /= None
       THEN /\ last' = Call("put", 0, None, 0, 0, "CellOccupied", <<>>, 0, 0, "")
            /\ UNCHANGED board
       ELSE /\ last' = Call("put", 0, None, 0, 0, "", <<>>, 0, 0, "")
            /\ board' = put(board, location, x, y)
    /\ pre' = [pre EXCEPT !.board = board']
    /\ UNCHANGED <<opts, pc, deck, hands, placed, turn, rounds, turnLog>>

\* Board.remove(x, y)
BoardRemove(x, y) ==
    /\ pc = "board"
    /\ IF ~InBounds(x, y)
       THEN /\ last' = Call("remove", 0, None, 0, 0, "OutOfBounds", <<>>, 0, 0, "")
            /\ UNCHANGED board
       ELSE /\ last' = Call("remove", 0, None, 0, 0, "", <<>>, 0, 0, "")
            /\ board' = remove(board, x, y)
    /\ pre' = [pre EXCEPT !.board = board']
    /\ UNCHANGED <<opts, pc, deck, hands, placed, turn, rounds, turnLog>>

\* Board.try_place(location, x, y)
BoardTryPlace(location, x, y) ==
    /\ pc = "board"
    /\ MayFill(x, y)
    /\ \E tp \in {try_place(board, location, x, y, opts.tolerance)} :
        /\ board' = tp.grid
        /\ last' = IF tp.raised = "" /\ tp.result = <<>>
                   THEN Call("try_place", 0, location, x, y, "", tp.result, 0, 0,
                             CellState(board, x, y))
                   ELSE Call("try_place", 0, None, 0, 0, tp.raised, tp.result, 0, 0,
                             CellState(board, x, y))
    /\ pre' = Snapshot
    /\ UNCHANGED <<opts, pc, deck, hands, placed, turn, rounds, turnLog>>

\* The calls on the board: every cell and one position outside the board;
\* `force` is only set on an occupied cell, where it makes a difference.
BoardPositions == Cells \cup {<<size, 0>>}

NextBoard ==
    \/ \E location \in BoardLocs, c \in BoardPositions, force \in BOOLEAN :
            /\ force => (c \in Cells /\ board[c] /= None)
            /\ BoardPut(location, c[1], c[2], force)
    \/ \E c \in BoardPositions : BoardRemove(c[1], c[2])
    \/ \E location \in BoardLocs, c \in BoardPositions :
            BoardTryPlace(location, c[1], c[2])

SpecBoard == InitBoard /\ [][NextBoard]_vars

(***************************************************************************)
(* Board.violations and Board.try_place on their own: one call on a grid   *)
(* that Board.put has filled with at most MaxCells locations.              *)
(***************************************************************************)
Grids == {g \in [Cells -> BoardLocs \cup {None}] : board_placed(g) <= MaxCells}

\* `direction=None`
NoDirection == "none"

InitGrid ==
    /\ opts \in {[DefaultOptions EXCEPT !.tolerance = t] : t \in BoardTolerances}
    /\ pc = "grid"
    /\ deck = <<>>
    /\ board \in Grids
    /\ hands = <<>>
    /\ placed = <<>>
    /\ turn = 0
    /\ rounds = 0
    /\ last = [op |-> "none"]
    /\ pre = Snapshot
    /\ turnLog = <<>>

\* Board.violations(direction)
GridViolations(direction) ==
    /\ pc = "grid"
    /\ pc' = "checked"
    /\ last' = [op |-> "violations", direction |-> direction,
                result |-> IF direction = NoDirection
                           THEN violations(board, opts.tolerance)
                           ELSE violations_dir(board, direction, opts.tolerance)]
    /\ pre' = Snapshot
    /\ UNCHANGED <<opts, deck, board, hands, placed, turn, rounds, turnLog>>

\* Board.try_place(location, x, y)
GridTryPlace(location, x, y) ==
    /\ pc = "grid"
    /\ board_placed(board) < MaxCells
    /\ pc' = "checked"
    /\ \E tp \in {try_place(board, location, x, y, opts.tolerance)} :
        /\ board' = tp.grid
        /\ last' = [op |-> "try_place", loc |-> location, x |-> x, y |-> y,
                    raised |-> tp.raised, result |-> tp.result,
                    cell |-> CellState(board, x, y)]
    /\ pre' = Snapshot
    /\ UNCHANGED <<opts, deck, hands, placed, turn, rounds, turnLog>>

NextGrid ==
    \/ \E direction \in Direction \cup {NoDirection} : GridViolations(direction)
    \/ \E location \in BoardLocs, c \in BoardPositions :
            GridTryPlace(location, c[1], c[2])

SpecGrid == InitGrid /\ [][NextGrid]_vars

(***************************************************************************)
(* Location.before on its own, for every pair of locations with whole      *)
(* coordinates of at most MaxDegrees and every tolerance up to             *)
(* MaxTolerance.                                                           *)
(***************************************************************************)
MaxDegrees == 2
MaxTolerance == 2

Degrees == (0 - MaxDegrees)..MaxDegrees
Places == [longitude : Degrees, latitude : Degrees]

InitBefore ==
    /\ opts = DefaultOptions
    /\ pc = "before"
    /\ deck = <<>>
    /\ board = NewBoard(None)
    /\ hands = <<>>
    /\ placed = <<>>
    /\ turn = 0
    /\ rounds = 0
    /\ last \in [op : {"args"}, self : Places, other : Places, direction : Direction,
                 tolerance : 0..MaxTolerance, result : {FALSE}]
    /\ pre = Snapshot
    /\ turnLog = <<>>

\* self.before(other, direction, tolerance)
Before ==
    /\ pc = "before"
    /\ pc' = "compared"
    /\ last' = [last EXCEPT !.op = "before",
                            !.result = before_at(last.self, last.other,
                                                 last.direction, last.tolerance)]
    /\ UNCHANGED <<opts, deck, board, hands, placed, turn, rounds, pre, turnLog>>

NextBefore == Before

SpecBefore == InitBefore /\ [][NextBefore]_vars

(***************************************************************************)
(* ui.py: the game window. The handlers of the Tk events run one at a      *)
(* time, in the order the events arrive: a click on a card of the hand, a  *)
(* click on a cell of the board, a double click on a card, and the timer   *)
(* that place_selected sets. `pre` holds the GameUI frame on display and   *)
(* `last` the last call of Game.place or Game.swap.                        *)
(***************************************************************************)
\* `self.selected = None`
NoSelection == 0 - 1

\* GameUI.__init__ and GameUI.turn on the game g: nothing is selected;
\* draw_player binds one frame per card of the current player's hand, unless
\* the game is over. `player` and `hand` are what the frame shows, `calls`
\* counts the Game.place and Game.swap calls that returned since the frame
\* was loaded, `closed` is that count for the frame this one replaced, and
\* `timers` the reloads that place_selected has scheduled.
GameUI(g, closed) ==
    [selected |-> NoSelection,
     player |-> g.turn,
     hand |-> IF GameoverIn(g) /= "" THEN <<>> ELSE g.hands[g.turn + 1],
     calls |-> 0,
     closed |-> closed,
     timers |-> 0]

\* The game after the handler has run.
SnapshotAfter ==
    [board |-> board', hands |-> hands', placed |-> placed', deck |-> deck',
     turn |-> turn', rounds |-> rounds']

\* The games the window is opened on: one or two players with one card each,
\* or one player with two cards.
UIOptions ==
    {[BaseOptions EXCEPT !.initial_cities = i, !.draw_when_fail = 1] : i \in {1, 2}}

InitUI ==
    /\ opts \in UIOptions
    /\ pc = "menu"
    /\ deck \in {[i \in 1..d |-> i] : d \in 2..MaxDeck}
    /\ board = NewBoard(None)
    /\ hands \in {[i \in 1..n |-> <<>>] : n \in 1..MaxPlayers}
    /\ Len(deck) >= 1 + Len(hands) * opts.initial_cities
    /\ placed = [i \in 1..Len(hands) |-> 0]
    /\ turn = 0
    /\ rounds = 0
    /\ last = NoCall
    /\ pre = [selected |-> NoSelection, player |-> 0, hand |-> <<>>,
              calls |-> 0, closed |-> 0, timers |-> 0]
    /\ turnLog = <<>>

\* StartMenu.start_game with `hands` player names: the game is constructed
\* over a deck that holds the center and the hands, then
\* switch_frame(GameUI).
StartGame ==
    /\ pc = "menu"
    /\ pc' = "frame"
    /\ \E c \in deck_pick(deck, 1) :
       \E out \in deal_initial(opts, NewBoard(c.result[1]), c.deck, hands, 1) :
            /\ board' = NewBoard(c.result[1])
            /\ deck' = out.deck
            /\ hands' = out.hands
    /\ turnLog' = <<<<0, 0>>>>
    /\ UNCHANGED <<opts, placed, turn, rounds, last>>
    /\ pre' = GameUI(SnapshotAfter, 0)

\* GameUI.set_selected(k), bound to the k-th card frame.
set_selected(selected, k) == IF k = selected THEN NoSelection ELSE k

SetSelected(k) ==
    /\ pc = "frame"
    /\ k \in 0..(Len(pre.hand) - 1)
    /\ pre' = [pre EXCEPT !.selected = set_selected(@, k)]
    /\ UNCHANGED <<opts, pc, deck, board, hands, placed, turn, rounds, last, turnLog>>

\* GameUI.place_selected(x, y), bound to every cell of the board. With
\* nothing selected (TypeError) or a selection beyond the hand of the current
\* player (IndexError) the handler returns before Game.place; a ValueError of
\* Game.place is logged and the handler returns; otherwise the reload is
\* scheduled after the turn delay.
PlaceSelected(x, y) ==
    /\ pc = "frame"
    /\ rounds < MaxRounds
    /\ pre.selected \in 0..(Len(hands[turn + 1]) - 1)
    /\ GamePlace(turn, hands[turn + 1][pre.selected + 1], x, y)
    /\ pre' = IF last'.raised = ""
              THEN [pre EXCEPT !.calls = @ + 1, !.timers = @ + 1]
              ELSE pre
    /\ UNCHANGED pc

\* GameUI.swap_selected(k), bound to the k-th card frame: set_selected(k),
\* then Game.swap with the k-th card of the current player and
\* switch_frame(GameUI). An IndexError or an error of Game.swap leaves the
\* handler before the reload.
SwapSelected(k) ==
    /\ pc = "frame"
    /\ rounds < MaxRounds
    /\ k \in 0..(Len(pre.hand) - 1)
    /\ UNCHANGED pc
    /\ IF k >= Len(hands[turn + 1])
       THEN /\ pre' = [pre EXCEPT !.selected = set_selected(@, k)]
            /\ UNCHANGED <<opts, deck, board, hands, placed, turn, rounds, last, turnLog>>
       ELSE /\ GameSwap(turn, hands[turn + 1][k + 1])
            /\ pre' = IF last'.raised = ""
                      THEN GameUI(SnapshotAfter, pre.calls + 1)
                      ELSE [pre EXCEPT !.selected = set_selected(@, k)]

\* The timer of place_selected fires: switch_frame(GameUI) builds the new
\* frame and destroys the one on display, and with it the timers it set.
Reload ==
    /\ pc = "frame"
    /\ pre.timers > 0
    /\ pre' = GameUI(Snapshot, pre.calls)
    /\ UNCHANGED <<opts, pc, deck, board, hands, placed, turn, rounds, last, turnLog>>

NextUI ==
    \/ StartGame
    \/ \E k \in 0..(MaxInitial + MaxDrawWhenFail) : SetSelected(k)
    \/ \E c \in Cells : PlaceSelected(c[1], c[2])
    \/ \E k \in 0..(MaxInitial + MaxDrawWhenFail) : SwapSelected(k)
    \/ Reload

SpecUI == InitUI /\ [][NextUI]_vars

(***************************************************************************)
(* The draw policy on its own: Options_.to_draw for every legal value of   *)
(* the options it reads.                                                   *)
(***************************************************************************)
InitOptions ==
    /\ opts \in {[DefaultOptions EXCEPT !.draw_when_fail = f, !.draw_per_mistake = m,
                                        !.stop_drawing = s] :
                    f \in DrawWhenFailChoices, m \in BOOLEAN, s \in StopDrawingChoices}
    /\ pc = "options"
    /\ deck = <<>>
    /\ board = NewBoard(None)
    /\ hands = <<>>
    /\ placed = <<>>
    /\ turn = 0
    /\ rounds = 0
    /\ last = NoCall
    /\ pre = Snapshot
    /\ turnLog = <<>>

\* The lists of directions of length at most MaxMistakes.
DirectionLists == UNION {[1..k -> Direction] : k \in 0..MaxMistakes}

\* Options_.to_draw(place_result, hand)
ToDraw(place_result, hand) ==
    /\ pc = "options"
    /\ last' = Call("to_draw", 0, None, 0, 0, "", place_result,
                    to_draw(opts, place_result, hand), hand, "")
    /\ UNCHANGED <<opts, pc, deck, board, hands, placed, turn, rounds, pre, turnLog>>

NextOptions ==
    \E place_result \in DirectionLists, hand \in 0..MaxHand : ToDraw(place_result, hand)

SpecOptions == InitOptions /\ [][NextOptions]_vars

(***************************************************************************)
(* options.py: Option. A Python value is a record of its type and value:   *)
(* an int by its number, a bool by 0 or 1, a float by its number of tenths *)
(* and a str by its list of characters.                                    *)
(***************************************************************************)
PyInt(n) == [t |-> "int", v |-> n]
PyBool(b) == [t |-> "bool", v |-> IF b THEN 1 ELSE 0]
PyFloat(tenths) == [t |-> "float", v |-> tenths]
PyStr(chars) == [t |-> "str", v |-> chars]

Digits == <<"0", "1", "2", "3", "4", "5", "6", "7", "8", "9">>

\* Python's == on these values: numbers compare by value across int, bool
\* and float; a str equals only the same str.
py_eq(a, b) ==
    IF a.t = "str" \/ b.t = "str"
    THEN IF a.t = b.t THEN a.v = b.v ELSE FALSE
    ELSE (IF a.t = "float" THEN a.v ELSE 10 * a.v)
            = (IF b.t = "float" THEN b.v ELSE 10 * b.v)

\* `value in choices`
py_in(value, choices) == \E i \in 1..Len(choices) : py_eq(value, choices[i])

\* str(n) of a natural number.
RECURSIVE nat_str(_)
nat_str(n) ==
    IF n < 10 THEN <<Digits[n + 1]>>
    ELSE nat_str(n \div 10) \o <<Digits[(n % 10) + 1]>>

\* str(o): decimal digits, 'True' / 'False', or the shortest decimal of a
\* float (one digit after the point for a number of tenths).
py_str(o) ==
    IF o.t = "str" THEN o.v
    ELSE IF o.t = "bool" THEN (IF o.v = 1 THEN <<"T", "r", "u", "e">>
                               ELSE <<"F", "a", "l", "s", "e">>)
    ELSE LET sign == IF o.v < 0 THEN <<"-">> ELSE <<>>
             abs == IF o.v < 0 THEN 0 - o.v ELSE o.v
         IN  IF o.t = "int" THEN sign \o nat_str(abs)
             ELSE sign \o nat_str(abs \div 10) \o <<".">> \o nat_str(abs % 10)

\* The number a list of decimal digits denotes.
RECURSIVE parse_nat(_)
parse_nat(chars) ==
    IF Len(chars) = 0 THEN 0
    ELSE 10 * parse_nat(SubSeq(chars, 1, Len(chars) - 1))
            + ((CHOOSE d \in 1..10 : Digits[d] = chars[Len(chars)]) - 1)

\* type(choices[0])(value) for a str `value` that is the str() of a choice:
\* int(value), bool(value) (true of every non-empty str) or float(value).
py_convert(type, chars) ==
    LET neg == Len(chars) > 0 /\ chars[1] = "-"
        body == IF neg THEN Tail(chars) ELSE chars
        point == IF \E i \in 1..Len(body) : body[i] = "."
                 THEN CHOOSE i \in 1..Len(body) : body[i] = "."
                 ELSE Len(body) + 1
        whole == parse_nat(SubSeq(body, 1, point - 1))
        tenth == IF point < Len(body) THEN parse_nat(SubSeq(body, point + 1, point + 1)) ELSE 0
    IN  IF type = "bool" THEN PyBool(Len(chars) > 0)
        ELSE IF type = "int" THEN PyInt(IF neg THEN 0 - whole ELSE whole)
        ELSE PyFloat(IF neg THEN 0 - (10 * whole + tenth) ELSE 10 * whole + tenth)

\* Option.set, on a mutant that stores the value without validating it.
option_set_unchecked(option, value) ==
    [raised |-> "", option |-> [option EXCEPT !.value = value]]

\* Option.set(value): the error raised ("" when none) and the option after.
option_set(option, value) ==
    IF py_in(value, option.choices)
    THEN [raised |-> "", option |-> [option EXCEPT !.value = value]]
    ELSE IF /\ value.t = "str"
            /\ Len(option.choices) > 0
            /\ \E i \in 1..Len(option.choices) : value.v = py_str(option.choices[i])
    THEN [raised |-> "",
          option |-> [option EXCEPT !.value = py_convert(option.choices[1].t, value.v)]]
    ELSE [raised |-> "InvalidOptionValue", option |-> option]

\* Options_._OPTIONS: the Option objects by name (one int, one bool and one
\* float option).
OptionNames == {"end placed", "may swap", "tolerance"}

OPTIONS ==
    [name \in OptionNames |->
        CASE name = "end placed" ->
                [choices |-> <<PyInt(-1), PyInt(5), PyInt(7), PyInt(10)>>, value |-> PyInt(-1)]
          [] name = "may swap" ->
                [choices |-> <<PyBool(TRUE), PyBool(FALSE)>>, value |-> PyBool(TRUE)]
          [] name = "tolerance" ->
                [choices |-> <<PyFloat(0), PyFloat(1), PyFloat(10), PyFloat(50), PyFloat(100)>>,
                 value |-> PyFloat(50)]]

(***************************************************************************)
(* The options on their own: Options(), then any sequence of set_option    *)
(* calls. Here `opts` holds the Option objects of Options_._OPTIONS.       *)
(***************************************************************************)
InitOption ==
    /\ opts = OPTIONS
    /\ pc = "option"
    /\ deck = <<>>
    /\ board = NewBoard(None)
    /\ hands = <<>>
    /\ placed = <<>>
    /\ turn = 0
    /\ rounds = 0
    /\ last = [op |-> "none", name |-> "", value |-> PyInt(0), raised |-> "", before |-> OPTIONS]
    /\ pre = Snapshot
    /\ turnLog = <<>>

\* The values passed to set_option: numbers of each type, legal for some
\* option or for none, their str() forms and other strings.
SetNumbers ==
    {PyInt(n) : n \in {-1, 0, 1, 5, 7}}
    \cup {PyBool(b) : b \in BOOLEAN}
    \cup {PyFloat(f) : f \in {0, 1, 25, 50}}

SetValues ==
    SetNumbers
    \cup {PyStr(py_str(o)) : o \in SetNumbers}
    \cup {PyStr(<<>>), PyStr(<<"t", "r", "u", "e">>), PyStr(<<"0", "5">>)}

\* Options_.set_option(option_name, value)
SetOption(option_name, value) ==
    /\ pc = "option"
    /\ \E r \in {option_set(opts[option_name], value)} :
        /\ opts' = [opts EXCEPT ![option_name] = r.option]
        /\ last' = [op |-> "set", name |-> option_name, value |-> value,
                    raised |-> r.raised, before |-> opts]
    /\ UNCHANGED <<pc, deck, board, hands, placed, turn, rounds, pre, turnLog>>

NextOption == \E option_name \in OptionNames, value \in SetValues : SetOption(option_name, value)

SpecOption == InitOption /\ [][NextOption]_vars

(***************************************************************************)
(* Several Options objects: Options() and set_option calls through any of  *)
(* them. `_OPTIONS` is an attribute of the class Options_, so `opts` is    *)
(* the one dictionary that `self._OPTIONS` denotes for every object.       *)
(***************************************************************************)
\* The number of Options objects.
MaxObjects == 2

Objects == 1..MaxObjects

\* Options_.__getitem__ through object `self`.
getitem(self, options, option_name) == options[option_name].value

InitObjects ==
    /\ opts = OPTIONS
    /\ pc = "objects"
    /\ deck = <<>>
    /\ board = NewBoard(None)
    /\ hands = <<>>
    /\ placed = <<>>
    /\ turn = 0
    /\ rounds = 0
    /\ last = [op |-> "none", self |-> 0, name |-> "", value |-> PyInt(0), raised |-> "",
               before |-> OPTIONS]
    /\ pre = Snapshot
    /\ turnLog = <<>>

\* Options(): __init__ writes the names and descriptions of the entries.
ObjectsNew(self) ==
    /\ pc = "objects"
    /\ last' = [op |-> "new", self |-> self, name |-> "", value |-> PyInt(0), raised |-> "",
                before |-> opts]
    /\ UNCHANGED <<opts, pc, deck, board, hands, placed, turn, rounds, pre, turnLog>>

\* self.set_option(option_name, value)
ObjectsSet(self, option_name, value) ==
    /\ pc = "objects"
    /\ \E r \in {option_set(opts[option_name], value)} :
        /\ opts' = [opts EXCEPT ![option_name] = r.option]
        /\ last' = [op |-> "set", self |-> self, name |-> option_name, value |-> value,
                    raised |-> r.raised, before |-> opts]
    /\ UNCHANGED <<pc, deck, board, hands, placed, turn, rounds, pre, turnLog>>

\* The values set through the objects: legal ones and one that is refused.
ObjectsValues ==
    {PyInt(5), PyInt(7), PyBool(FALSE), PyBool(TRUE), PyFloat(0), PyFloat(50), PyStr(<<"7">>)}

NextObjects ==
    \/ \E self \in Objects : ObjectsNew(self)
    \/ \E self \in Objects, option_name \in OptionNames, value \in ObjectsValues :
            ObjectsSet(self, option_name, value)

SpecObjects == InitObjects /\ [][NextObjects]_vars

(***************************************************************************)
(* The ranking on its own: Game.results on players whose hands and placed  *)
(* counters are drawn by the initial state (it reads nothing else).        *)
(***************************************************************************)
\* The most players ranked, their largest hand and largest placed counter.
MaxRanked == 3
MaxRankedHand == 2
MaxRankedPlaced == 2

InitResults ==
    /\ opts = DefaultOptions
    /\ pc = "results"
    /\ deck = <<>>
    /\ board = NewBoard(None)
    /\ \E n \in 1..MaxRanked :
        /\ hands \in [1..n -> {[j \in 1..k |-> j] : k \in 0..MaxRankedHand}]
        /\ placed \in [1..n -> 0..MaxRankedPlaced]
    /\ turn = 0
    /\ rounds = 0
    /\ last = [op |-> "none", order |-> <<>>]
    /\ pre = Snapshot
    /\ turnLog = <<>>

\* Game.results()
Results ==
    /\ pc = "results"
    /\ last.op = "none"
    /\ last' = [op |-> "results", order |-> results(hands, placed)]
    /\ UNCHANGED <<opts, pc, deck, board, hands, placed, turn, rounds, pre, turnLog>>

NextResults == Results

SpecResults == InitResults /\ [][NextResults]_vars

(***************************************************************************)
(* The deck on its own: Locations(content), then any sequence of pick      *)
(* calls.                                                                  *)
(***************************************************************************)
\* The largest number of locations asked of one pick.
MaxPick == 4

InitDeck ==
    /\ opts = DefaultOptions
    /\ pc = "deck"
    /\ deck \in {[i \in 1..d |-> i] : d \in 0..NLoc}
    /\ board = NewBoard(None)
    /\ hands = <<>>
    /\ placed = <<>>
    /\ turn = 0
    /\ rounds = 0
    /\ last = NoCall
    /\ pre = Snapshot
    /\ turnLog = <<>>

\* Locations.pick(k): `result` is the returned list, `draw` is k.
DeckPick(k) ==
    /\ pc = "deck"
    /\ IF k > Len(deck)
       THEN /\ last' = Call("pick", 0, None, 0, 0, "InsufficientSupply", <<>>, k, 0, "")
            /\ UNCHANGED deck
       ELSE \E pk \in deck_pick(deck, k) :
            /\ last' = Call("pick", 0, None, 0, 0, "", pk.result, k, 0, "")
            /\ deck' = pk.deck
    /\ pre' = Snapshot
    /\ UNCHANGED <<opts, pc, board, hands, placed, turn, rounds, turnLog>>

NextDeck == \E k \in 0..MaxPick : DeckPick(k)

SpecDeck == InitDeck /\ [][NextDeck]_vars

(***************************************************************************)
(* The game-over rule on its own: Options_.gameover on arguments drawn by  *)
(* the initial state.                                                      *)
(***************************************************************************)
\* The longest list of scores (one score per player).
MaxScores == 2

\* Argument values on both sides of the smallest thresholds of 'end rounds',
\* 'end hand', 'end placed' and 'empty deck'.
RoundsArgs == {0, 5, 6}
ScoreArgs == {0, 1, 3, 5}
PlacedArgs == {1, 4, 5}
DeckArgs == {0, 1, 2, 3, 101, 102, 103}
ScoreLists == UNION {[1..k -> ScoreArgs] : k \in 0..MaxScores}

InitGameover ==
    /\ opts \in {[DefaultOptions EXCEPT !.end_hand = h, !.end_rounds = r,
                                        !.end_placed = e, !.empty_deck = d] :
                    h \in {3, 5}, r \in {-1, 5}, e \in {-1, 5}, d \in {0, 100}}
    /\ pc = "gameover"
    /\ deck = <<>>
    /\ board = NewBoard(None)
    /\ hands = <<>>
    /\ placed = <<>>
    /\ turn = 0
    /\ rounds = 0
    /\ last \in [op : {"args"}, rounds : RoundsArgs, scores : ScoreLists,
                 placed : PlacedArgs, deck : DeckArgs, reason : {""}]
    /\ pre = Snapshot
    /\ turnLog = <<>>

\* Options_.gameover(rounds, scores, placed, deck)
Gameover ==
    /\ pc = "gameover"
    /\ last.op = "args"
    /\ last' = [last EXCEPT !.op = "gameover",
                            !.reason = options_gameover(opts, last.rounds, last.scores,
                                                        last.placed, last.deck)]
    /\ UNCHANGED <<opts, pc, deck, board, hands, placed, turn, rounds, pre, turnLog>>

NextGameover == Gameover

SpecGameover == InitGameover /\ [][NextGameover]_vars

(***************************************************************************)
(* Properties                                                              *)
(***************************************************************************)
Count(s, x) == Cardinality({i \in 1..Len(s) : s[i] = x})

\* The game state is what it was before the last call.
GameUnchanged == Snapshot = pre

\* The last call was Game.place or Game.swap on a constructed game.
GameCall == pc = "playing" /\ last.op \in {"place", "swap"}

\* Every pair of occupied cells is ordered as its columns and its rows are.
OrderingInvariant(grid, tolerance) ==
    \A c1, c2 \in {c \in Cells : grid[c] /= None} :
        /\ c1[1] <= c2[1] => before(grid[c1], grid[c2], LONGITUDE, tolerance)
        /\ c1[2] <= c2[2] => before(grid[c1], grid[c2], LATITUDE, tolerance)

\* C1: in every state of a constructed game, whatever place and swap calls
\* returned or raised, Board.violations() is the empty list.
C1_BoardInvariant ==
    pc = "playing" => violations(board, opts.tolerance) = <<>>

\* A placement that was rolled back on a board that holds a committed card.
C1_Witness ==
    /\ GameCall /\ last.op = "place" /\ last.raised = "" /\ last.result /= <<>>
    /\ board_placed(board) >= 2

\* C2: when Board.try_place returns a non-empty list, every cell of the board
\* (the target cell, empty before, included) and placed() are what they were
\* before the call.
C2_Transactional ==
    (pc = "board" /\ last.op = "try_place" /\ last.raised = "" /\ last.result /= <<>>)
        => /\ last.cell = "empty"
           /\ board = pre.board
           /\ board_placed(board) = board_placed(pre.board)

\* try_place reported both directions on a board with two occupied cells.
C2_Witness ==
    /\ pc = "board" /\ last.op = "try_place" /\ Len(last.result) = 2
    /\ board_placed(board) = 2

\* C3: when Board.try_place(location, x, y) returns the empty list, the cell
\* (x, y) holds location, placed() is one more than before the call and every
\* other cell is unchanged.
C3_Commit ==
    (pc = "board" /\ last.op = "try_place" /\ last.raised = "" /\ last.result = <<>>)
        => /\ board[<<last.x, last.y>>] = last.loc
           /\ board_placed(board) = board_placed(pre.board) + 1
           /\ \A c \in Cells \ {<<last.x, last.y>>} : board[c] = pre.board[c]

\* try_place committed the third card of the board.
C3_Witness ==
    /\ pc = "board" /\ last.op = "try_place" /\ last.raised = "" /\ last.result = <<>>
    /\ board_placed(board) = 3

\* C4: for every board content and tolerance, Board.violations() is empty if
\* and only if every pair of occupied cells is ordered in both directions.
C4_Closure ==
    pc = "board" =>
        ((violations(board, opts.tolerance) = <<>>) <=> OrderingInvariant(board, opts.tolerance))

\* A board whose only unordered pair lies in one column, the later row first.
C4_Witness ==
    /\ pc = "board"
    /\ violations(board, opts.tolerance) /= <<>>
    /\ ~OrderingInvariant(board, opts.tolerance)
    /\ \A c1, c2 \in {c \in Cells : board[c] /= None} :
        /\ c1[2] <= c2[2] => before(board[c1], board[c2], LATITUDE, opts.tolerance)
        /\ (c1[1] <= c2[1] /\ ~before(board[c1], board[c2], LONGITUDE, opts.tolerance))
            => (c1[1] = c2[1] /\ c1[2] > c2[2])

\* C5: Game.place by the current player onto an occupied cell raises
\* CellOccupied and leaves board, hands, placed counters, deck, turn and
\* rounds unchanged; the caller is still the current player.
C5_CellOccupied ==
    (GameCall /\ last.op = "place" /\ last.who = pre.turn /\ last.cell = "occupied")
        => /\ last.raised = "CellOccupied"
           /\ GameUnchanged
           /\ turn = last.who

\* The current player, holding a card, placed onto an occupied cell.
C5_Witness ==
    /\ GameCall /\ last.op = "place" /\ last.who = pre.turn /\ last.cell = "occupied"
    /\ Len(pre.hands[last.who + 1]) > 0

\* C6: Game.place and Game.swap by a player who is not players[turn] raise
\* NotYourTurn and leave the game state unchanged; in a game of several
\* players the one who completed a call is not the current player afterwards.
C6_NotYourTurn ==
    /\ (GameCall /\ last.who /= pre.turn) => (last.raised = "NotYourTurn" /\ GameUnchanged)
    /\ (GameCall /\ last.raised = "" /\ Len(hands) >= 2) => turn /= last.who

\* The player who completed the previous call called again out of turn.
C6_Witness ==
    /\ GameCall /\ last.raised = "NotYourTurn"
    /\ Len(turnLog) >= 2
    /\ last.who = turnLog[Len(turnLog) - 1][1]

\* C7: each next_player call sets turn to (turn + 1) mod n and increments the
\* round counter exactly when turn becomes 0; after n consecutive calls the
\* turn is back at its value and the round counter is one more.
C7_TurnCycling ==
    pc = "playing" =>
        LET n == Len(hands)
            m == Len(turnLog)
        IN  /\ turnLog[m] = <<turn, rounds>>
            /\ \A i \in 1..(m - 1) :
                /\ turnLog[i + 1][1] = (turnLog[i][1] + 1) % n
                /\ turnLog[i + 1][2] = turnLog[i][2] + (IF turnLog[i + 1][1] = 0 THEN 1 ELSE 0)
            /\ m = n + 1 =>
                /\ turnLog[m][1] = turnLog[1][1]
                /\ turnLog[m][2] = turnLog[1][2] + 1

\* Two players and two next_player calls that started at player 1.
C7_Witness ==
    /\ pc = "playing" /\ Len(hands) = 2 /\ Len(turnLog) = 3
    /\ turnLog[1][1] = 1

C9_DrawCap ==
    (pc = "options" /\ last.op = "to_draw")
        => last.hand + last.draw <= opts.stop_drawing

\* The cap cut a per-mistake draw short.
C9_Witness ==
    /\ pc = "options" /\ last.op = "to_draw"
    /\ opts.draw_per_mistake /\ Len(last.result) = 2
    /\ last.draw > 0 /\ last.draw < opts.draw_when_fail * 2

\* The draw policy as stated: max(0, stop - h) when the cap applies.
ReferenceDraw(o, place_result, h) ==
    IF Len(place_result) = 0 THEN 0
    ELSE LET base == IF o.draw_per_mistake
                     THEN o.draw_when_fail * Len(place_result)
                     ELSE o.draw_when_fail
         IN  IF h + base <= o.stop_drawing THEN base
             ELSE IF o.stop_drawing - h > 0 THEN o.stop_drawing - h ELSE 0

\* C10: to_draw(violations, h) equals the reference draw policy for every
\* hand size h >= 0, hands above 'stop drawing' included, and is never
\* negative.
C10_ReferencePolicy ==
    (pc = "options" /\ last.op = "to_draw")
        => /\ last.draw = ReferenceDraw(opts, last.result, last.hand)
           /\ last.draw >= 0

\* The five rules of Options_.gameover as conditions on the last call.
RoundsRule == 0 < opts.end_rounds /\ opts.end_rounds < last.rounds
EmptiedRule == \E i \in 1..Len(last.scores) : last.scores[i] = 0
TooLargeRule == \E i \in 1..Len(last.scores) : last.scores[i] >= opts.end_hand
PlacedRule == 0 < opts.end_placed /\ opts.end_placed <= last.placed
DeckRule == last.deck - opts.empty_deck <= Len(last.scores)

\* C11: when the rounds rule does not apply and some score is 0,
\* Options.gameover returns the hand-emptied reason, wherever that score is
\* in the list and even if another score is at least 'end hand'.
C11_EmptiedFirst ==
    (pc = "gameover" /\ last.op = "gameover" /\ ~RoundsRule /\ EmptiedRule)
        => last.reason = "hand emptied"

Constructed == pc /= "setup" /\ last.op = "init" /\ Len(pre.hands) >= 1

\* The cards a construction deals: the center and each player's hand.
Dealt == 1 + Len(pre.hands) * opts.initial_cities

\* C13: after a successful construction with n >= 1 players over a deck of
\* d >= 1 + n * initial locations, turn and rounds are 0, the board holds one
\* location, at the center cell, every player holds 'initial cities' cards
\* and has placed none, and the deck holds d - (1 + n * initial) cards.
C13_Construction ==
    (Constructed /\ pc = "playing" /\ Len(pre.deck) >= Dealt)
        => /\ turn = 0 /\ rounds = 0
           /\ board_placed(board) = 1
           /\ board[<<center_x, center_y>>] /= None
           /\ Len(hands) = Len(pre.hands)
           /\ \A p \in 1..Len(hands) :
                Len(hands[p]) = opts.initial_cities /\ placed[p] = 0
           /\ Len(deck) = Len(pre.deck) - Dealt

\* Two players were dealt their hands from a deck of three locations.
C13_Witness ==
    /\ Constructed /\ pc = "playing" /\ Len(pre.deck) >= Dealt
    /\ Len(hands) = 2 /\ Len(pre.deck) = 3

\* C14: constructing a Game over a deck that is empty or holds fewer than
\* 1 + n * 'initial cities' locations fails with InsufficientSupply; no Game
\* without a board, or with a player holding fewer cards, is returned.
C14_ConstructionFails ==
    (Constructed /\ Len(pre.deck) < Dealt)
        => /\ last.raised = "InsufficientSupply"
           /\ pc = "failed"

\* The places that hold location l in a game state: deck entries, hand
\* entries and board cells.
Owners(g, l) ==
    Count(g.deck, l)
    + Cardinality(UNION {{<<p, i>> : i \in {j \in 1..Len(g.hands[p]) : g.hands[p][j] = l}} :
                            p \in 1..Len(g.hands)})
    + Cardinality({c \in Cells : g.board[c] = l})

\* C15: in a game built from a deck of pairwise distinct locations, every
\* location of that deck is at all times in exactly one of the deck, a hand
\* and a board cell: it is so after construction, and every place or swap
\* call keeps it so.
C15_Ownership ==
    pc = "playing" =>
        /\ last.op = "init" => \A l \in SeqRange(pre.deck) : Owners(Snapshot, l) = 1
        /\ GameCall => \A l \in Locs : Owners(pre, l) = 1 => Owners(Snapshot, l) = 1

\* C16: once gameover() returns a non-empty reason, no Game.place or
\* Game.swap call changes board, hands, placed counters, deck, turn or rounds.
C16_GameOverTerminal ==
    (GameCall /\ GameoverIn(pre) /= "") => GameUnchanged

\* C17: a Game.swap(player, location) by the current player that returns,
\* for a location of the hand, puts one card drawn from the deck at the hand
\* position of the first occurrence of location: hand size, placed counters
\* and board are unchanged, the deck is one card shorter, location is no
\* longer in the hand and the turn has advanced.
C17_SwapEffect ==
    (/\ GameCall /\ last.op = "swap" /\ last.raised = ""
     /\ last.loc \in SeqRange(pre.hands[pre.turn + 1]))
        => LET p == pre.turn + 1
               i == index_of(pre.hands[p], last.loc)
           IN  /\ Len(hands[p]) = Len(pre.hands[p])
               /\ \A j \in 1..Len(hands[p]) : j /= i => hands[p][j] = pre.hands[p][j]
               /\ hands[p][i] \in SeqRange(pre.deck)
               /\ Count(deck, hands[p][i]) = Count(pre.deck, hands[p][i]) - 1
               /\ Len(deck) = Len(pre.deck) - 1
               /\ last.loc \notin SeqRange(hands[p])
               /\ \A q \in 1..Len(hands) : q /= p => hands[q] = pre.hands[q]
               /\ placed = pre.placed
               /\ board = pre.board
               /\ turn = next_turn(pre.turn, Len(hands))

\* C17, amended: with 'only sat' disabled, a Game.swap(player, location) by
\* the current player that returns, for a location of the hand, puts one card
\* drawn from the deck at the hand position of the first occurrence of
\* location: hand size, placed counters and board are unchanged, the deck is
\* one card shorter, location is no longer in the hand and the turn has
\* advanced.
C17_SwapEffect_Drawn ==
    (/\ GameCall /\ last.op = "swap" /\ last.raised = ""
     /\ last.loc \in SeqRange(pre.hands[pre.turn + 1])
     /\ ~opts.only_sat)
        => LET p == pre.turn + 1
               i == index_of(pre.hands[p], last.loc)
           IN  /\ Len(hands[p]) = Len(pre.hands[p])
               /\ \A j \in 1..Len(hands[p]) : j /= i => hands[p][j] = pre.hands[p][j]
               /\ hands[p][i] \in SeqRange(pre.deck)
               /\ Count(deck, hands[p][i]) = Count(pre.deck, hands[p][i]) - 1
               /\ Len(deck) = Len(pre.deck) - 1
               /\ last.loc \notin SeqRange(hands[p])
               /\ \A q \in 1..Len(hands) : q /= p => hands[q] = pre.hands[q]
               /\ placed = pre.placed
               /\ board = pre.board
               /\ turn = next_turn(pre.turn, Len(hands))

\* The first of two hand cards was swapped.
C17_Witness ==
    /\ GameCall /\ last.op = "swap" /\ last.raised = ""
    /\ ~opts.only_sat
    /\ Len(pre.hands[pre.turn + 1]) = 2
    /\ last.loc = pre.hands[pre.turn + 1][1]
    /\ last.loc \notin SeqRange(hands[pre.turn + 1])

\* C18: Game.swap by the current player with 'may swap' off raises
\* SwapNotAllowed and leaves hands, deck, board, turn and rounds unchanged.
C18_SwapNotAllowed ==
    (GameCall /\ last.op = "swap" /\ last.who = pre.turn /\ ~opts.may_swap)
        => /\ last.raised = "SwapNotAllowed"
           /\ GameUnchanged

\* The current player, holding a card, asked for a swap with 'may swap' off
\* and cards left in the deck.
C18_Witness ==
    /\ GameCall /\ last.op = "swap" /\ last.who = pre.turn /\ ~opts.may_swap
    /\ Len(pre.hands[pre.turn + 1]) >= 1
    /\ Len(pre.deck) >= 1

\* C19: Deck.pick(k) with k <= size returns k distinct elements of the deck
\* and removes them, the remaining elements keeping their order; with
\* k > size it raises InsufficientSupply and leaves the deck unchanged.
C19_Pick ==
    (pc = "deck" /\ last.op = "pick")
        => IF last.draw <= Len(pre.deck)
           THEN LET Left(l) == l \notin SeqRange(last.result)
                IN  /\ last.raised = ""
                    /\ Len(last.result) = last.draw
                    /\ Cardinality(SeqRange(last.result)) = last.draw
                    /\ SeqRange(last.result) \subseteq SeqRange(pre.deck)
                    /\ SeqRange(last.result) \cap SeqRange(deck) = {}
                    /\ deck = SelectSeq(pre.deck, Left)
                    /\ Len(deck) = Len(pre.deck) - last.draw
           ELSE /\ last.raised = "InsufficientSupply"
                /\ deck = pre.deck

\* Two locations were picked in decreasing index order from the middle of a
\* deck of four or more.
C19_Witness ==
    /\ pc = "deck" /\ last.op = "pick" /\ last.raised = ""
    /\ Len(last.result) = 2 /\ Len(pre.deck) >= 4
    /\ last.result[1] = pre.deck[3] /\ last.result[2] = pre.deck[2]

\* C20: after any sequence of set calls, successful or failing, the value of
\* every option is one of its legal values; a set call with a value that is
\* neither a legal value nor the str() of one raises InvalidOptionValue and
\* leaves the value unchanged.
C20_LegalValues ==
    pc = "option" =>
        /\ \A name \in OptionNames : py_in(opts[name].value, opts[name].choices)
        /\ \A name \in OptionNames : opts[name].choices = OPTIONS[name].choices
        /\ last.op = "set" =>
            LET choices == OPTIONS[last.name].choices
                legal == \E i \in 1..Len(choices) : py_eq(last.value, choices[i])
                strform == /\ last.value.t = "str"
                           /\ \E i \in 1..Len(choices) : last.value.v = py_str(choices[i])
            IN  ~(legal \/ strform) =>
                    (last.raised = "InvalidOptionValue" /\ opts = last.before)

\* A str that is the str() of no legal value was refused, after 'end placed'
\* was set to 5 and 'tolerance' to the int 5, which equals its choice 5.0.
C20_Witness ==
    /\ pc = "option" /\ last.op = "set" /\ last.raised = "InvalidOptionValue"
    /\ last.name = "end placed" /\ last.value = PyStr(<<"0", "5">>)
    /\ opts["end placed"].value = PyInt(5)
    /\ opts["tolerance"].value = PyInt(5)

\* C21: for every option and every legal value v of it, set called with the
\* str() of v makes v, with its type, the current value: for int, float and
\* bool options alike.
C21_StringCoercion ==
    (pc = "option" /\ last.op = "set" /\ last.value.t = "str")
        => \A i \in 1..Len(OPTIONS[last.name].choices) :
            LET v == OPTIONS[last.name].choices[i]
            IN  last.value.v = py_str(v)
                    => (last.raised = "" /\ opts[last.name].value = v)

\* C22: a newly constructed Options object reports the default value of
\* every entry whatever set_option calls were made on other objects, and
\* set_option on one object does not change the values read through another.
C22_Isolation ==
    pc = "objects" =>
        /\ last.op = "new" =>
            \A name \in OptionNames : getitem(last.self, opts, name) = OPTIONS[name].value
        /\ last.op = "set" =>
            \A other \in Objects \ {last.self}, name \in OptionNames :
                getitem(other, opts, name) = getitem(other, last.before, name)

\* C23: Game.results() returns a permutation of the players sorted by
\* ascending hand size, ties broken by descending placed counter; players
\* equal on both keep their player order.
C23_Results ==
    (pc = "results" /\ last.op = "results")
        => LET n == Len(hands)
               order == last.order
           IN  /\ Len(order) = n
               /\ {order[i] : i \in 1..n} = 1..n
               /\ \A i, j \in 1..n :
                    i < j =>
                        LET a == order[i]
                            b == order[j]
                        IN  \/ Len(hands[a]) < Len(hands[b])
                            \/ Len(hands[a]) = Len(hands[b]) /\ placed[a] > placed[b]
                            \/ Len(hands[a]) = Len(hands[b]) /\ placed[a] = placed[b] /\ a < b

\* Three players: the third beats the first on the placed counter at equal
\* hands, the second has the largest hand and the same counter as the third.
C23_Witness ==
    /\ pc = "results" /\ last.op = "results"
    /\ Len(hands) = 3
    /\ Len(hands[1]) = Len(hands[3]) /\ placed[3] > placed[1]
    /\ Len(hands[2]) > Len(hands[1]) /\ placed[2] = placed[3]
    /\ last.order = <<3, 1, 2>>

RECURSIVE SumSeq(_)
SumSeq(q) == IF Len(q) = 0 THEN 0 ELSE q[1] + SumSeq(Tail(q))

\* C24: a player's placed counter is the number of locations the player has
\* put on the board and that stayed there: it is 0 after construction, and a
\* place call that returns adds to the caller's counter what it adds to the
\* board, so that the counters plus the center add up to board.placed().
C24_PlacedCounter ==
    pc = "playing" =>
        /\ last.op = "init" => SumSeq(placed) + 1 = board_placed(board)
        /\ (GameCall /\ last.raised = "") =>
                /\ SumSeq(placed) - SumSeq(pre.placed)
                        = board_placed(board) - board_placed(pre.board)
                /\ \A p \in 1..Len(placed) : p /= last.who + 1 => placed[p] = pre.placed[p]

\* The number of cards of deck d that Game.pick keeps for the board `grid`.
Placeable(d, grid) ==
    Cardinality({i \in 1..Len(d) : can_place(grid, d[i], opts.tolerance)})

\* The last call was a swap that reached its draw with no placeable card in
\* the deck.
SwapUnsatisfiable ==
    /\ GameCall /\ last.op = "swap" /\ last.who = pre.turn /\ opts.may_swap
    /\ Placeable(pre.deck, pre.board) < 1

\* The last call was a place of a hand card on an empty cell that had to
\* draw more cards than the deck holds placeable ones.
PlaceUnsatisfiable ==
    /\ GameCall /\ last.op = "place" /\ last.who = pre.turn /\ last.cell = "empty"
    /\ last.loc \in SeqRange(pre.hands[pre.turn + 1])
    /\ Placeable(pre.deck, board)
            < to_draw(opts, last.result, Len(pre.hands[pre.turn + 1]) - 1)

\* C25: with 'only sat' enabled, a Game.place or Game.swap call whose draw
\* cannot be satisfied returns without an error, deals no card (a swap leaves
\* every hand as it was, a place only removes the played card) and passes the
\* turn to the next player.
C25_OnlySat ==
    (opts.only_sat /\ (SwapUnsatisfiable \/ PlaceUnsatisfiable))
        => LET p == pre.turn + 1
           IN  /\ last.raised = ""
               /\ SwapUnsatisfiable => hands = pre.hands
               /\ PlaceUnsatisfiable
                    => hands = [pre.hands EXCEPT ![p] = hand_remove(@, last.loc)]
               /\ turn = next_turn(pre.turn, Len(hands))
               /\ rounds = next_rounds(pre.turn, Len(hands), pre.rounds)

\* A misplaced hand card asked for a draw that the deck could not satisfy,
\* after a card that is not placeable had left the deck.
C25_Witness ==
    /\ opts.only_sat /\ PlaceUnsatisfiable
    /\ Len(deck) < Len(pre.deck)

\* The loop variables (m1, m2, n1, n2) at which Board.violations checks the
\* pair of a witness: m is the column for LONGITUDE and the row for LATITUDE.
LoopOf(w) ==
    IF w.direction = LONGITUDE
    THEN <<w.x_1, w.x_2, w.y_1, w.y_2>>
    ELSE <<w.y_1, w.y_2, w.x_1, w.x_2>>

\* The values the loop variables take: m2 runs from m1.
LoopTuples == {t \in Range \X Range \X Range \X Range : t[1] <= t[2]}

\* Tuple a comes before tuple b in the order of the nested loops.
LoopEarlier(a, b) == \E i \in 1..4 : a[i] < b[i] /\ \A j \in 1..(i - 1) : a[j] = b[j]

\* The two cells of a loop tuple.
FirstCell(t, direction) == IF direction = LONGITUDE THEN <<t[1], t[3]>> ELSE <<t[3], t[1]>>
SecondCell(t, direction) == IF direction = LONGITUDE THEN <<t[2], t[4]>> ELSE <<t[4], t[2]>>

\* The pair of loop tuple t is a pair of occupied cells out of order.
ViolatingTuple(grid, direction, tolerance, t) ==
    /\ grid[FirstCell(t, direction)] /= None
    /\ grid[SecondCell(t, direction)] /= None
    /\ ~before(grid[FirstCell(t, direction)], grid[SecondCell(t, direction)],
               direction, tolerance)

\* v is what the claim says Board.violations(direction) returns on grid: no
\* witness when no pair violates, else the one witness of the earliest
\* violating pair.
FirstWitness(grid, direction, tolerance, v) ==
    /\ Len(v) <= 1
    /\ Len(v) = 0 => \A t \in LoopTuples : ~ViolatingTuple(grid, direction, tolerance, t)
    /\ Len(v) = 1 =>
            /\ v[1].direction = direction
            /\ LoopOf(v[1]) \in LoopTuples
            /\ ViolatingTuple(grid, direction, tolerance, LoopOf(v[1]))
            /\ v[1].loc1 = grid[<<v[1].x_1, v[1].y_1>>]
            /\ v[1].loc2 = grid[<<v[1].x_2, v[1].y_2>>]
            /\ \A t \in LoopTuples :
                    ViolatingTuple(grid, direction, tolerance, t) => ~LoopEarlier(t, LoopOf(v[1]))

\* The witnesses of a list for one direction, in list order.
WitnessesOf(v, direction) == SelectSeq(v, LAMBDA w : w.direction = direction)

\* C26: Board.violations(direction) returns at most one witness, that of the
\* first violating pair of occupied cells in the order m1 ascending, m2
\* ascending from m1, n1 ascending, n2 ascending; Board.violations() returns
\* the LONGITUDE witness (if any) followed by the LATITUDE witness (if any):
\* at most two entries, never two of one direction.
C26_FirstViolation ==
    (pc = "checked" /\ last.op = "violations") =>
        IF last.direction = NoDirection
        THEN /\ Len(last.result) <= 2
             /\ last.result = WitnessesOf(last.result, LONGITUDE)
                                \o WitnessesOf(last.result, LATITUDE)
             /\ \A d \in Direction :
                    FirstWitness(board, d, opts.tolerance, WitnessesOf(last.result, d))
        ELSE FirstWitness(board, last.direction, opts.tolerance, last.result)

\* violations() returned two witnesses on a grid where more than one pair
\* violates the longitude order.
C26_Witness ==
    /\ pc = "checked" /\ last.op = "violations" /\ last.direction = NoDirection
    /\ Len(last.result) = 2
    /\ Cardinality({t \in LoopTuples :
            ViolatingTuple(board, LONGITUDE, opts.tolerance, t)}) > 1

\* The occupied cells of grid are in order along direction: every pair whose
\* columns (rows, for LATITUDE) are in order holds locations in order.
OrderedAlong(grid, direction, tolerance) ==
    \A c1, c2 \in {c \in Cells : grid[c] /= None} :
        (IF direction = LONGITUDE THEN c1[1] <= c2[1] ELSE c1[2] <= c2[2])
            => before(grid[c1], grid[c2], direction, tolerance)

\* C27: Board.try_place(location, x, y) on an empty cell returns a list
\* without a repeated direction that holds direction d if and only if the
\* grid with location written at (x, y) is out of order along d.
C27_TryPlaceDirections ==
    (pc = "checked" /\ last.op = "try_place" /\ last.cell = "empty") =>
        /\ last.raised = ""
        /\ \A d \in Direction :
                /\ Count(last.result, d) <= 1
                /\ (Count(last.result, d) = 1)
                    <=> ~OrderedAlong(put(pre.board, last.loc, last.x, last.y), d, opts.tolerance)

\* A placement that is wrong on both axes returned the two directions.
C27_Witness ==
    /\ pc = "checked" /\ last.op = "try_place" /\ last.cell = "empty"
    /\ Len(last.result) = 2
    /\ board_placed(pre.board) = 2

AbsDiff(a, b) == IF a < b THEN b - a ELSE a - b

\* The column of a cell for LONGITUDE, its row for LATITUDE; the longitude of
\* a location for LONGITUDE, its latitude for LATITUDE.
LineOf(c, direction) == IF direction = LONGITUDE THEN c[1] ELSE c[2]
DegreesOf(l, direction) == IF direction = LONGITUDE THEN longitude(l) ELSE latitude(l)

\* C28: on a grid with two locations, Board.violations(LONGITUDE) accepts two
\* locations of one column if and only if their longitudes differ by at most
\* the tolerance, and two locations of different columns if and only if the
\* one in the lower column is before the other; Board.violations(LATITUDE)
\* does the same with rows and latitudes.
C28_SameLine ==
    (/\ pc = "checked" /\ last.op = "violations" /\ last.direction \in Direction
     /\ board_placed(board) = 2)
        => \A c1, c2 \in {c \in Cells : board[c] /= None} :
            (c1 /= c2 /\ LineOf(c1, last.direction) <= LineOf(c2, last.direction))
                => ((last.result = <<>>)
                    <=> IF LineOf(c1, last.direction) = LineOf(c2, last.direction)
                        THEN AbsDiff(DegreesOf(board[c1], last.direction),
                                     DegreesOf(board[c2], last.direction)) <= opts.tolerance
                        ELSE before(board[c1], board[c2], last.direction, opts.tolerance))

\* Two locations of one column whose longitudes differ, by less than the
\* tolerance, were accepted.
C28_Witness ==
    /\ pc = "checked" /\ last.op = "violations" /\ last.direction = LONGITUDE
    /\ last.result = <<>>
    /\ \E c1, c2 \in {c \in Cells : board[c] /= None} :
            /\ c1 /= c2 /\ c1[1] = c2[1]
            /\ longitude(board[c1]) /= longitude(board[c2])
    /\ board_placed(board) = 2

\* C29: before(a, b, LONGITUDE, t) holds if and only if a.longitude -
\* b.longitude <= t, and before(a, b, LATITUDE, t) if and only if b.latitude -
\* a.latitude <= t; so before(a, a, d, t) holds, before(a, b, d, t) implies
\* before(a, b, d, u) for every u >= t, and one of before(a, b, d, t) and
\* before(b, a, d, t) holds.
C29_Before ==
    pc = "compared" =>
        LET a == last.self
            b == last.other
            d == last.direction
            t == last.tolerance
        IN  /\ d = LONGITUDE => (last.result <=> a.longitude - b.longitude <= t)
            /\ d = LATITUDE => (last.result <=> b.latitude - a.latitude <= t)
            /\ before_at(a, a, d, t)
            /\ last.result => \A u \in t..(MaxTolerance + 1) : before_at(a, b, d, u)
            /\ last.result \/ before_at(b, a, d, t)

\* A location east of the other one, within the tolerance, was found before
\* it.
C29_Witness ==
    /\ pc = "compared" /\ last.direction = LONGITUDE
    /\ last.self.longitude > last.other.longitude
    /\ last.result

\* C30: between two reloads of the GameUI frame at most one Game.place or
\* Game.swap call is executed, and it is a call of the player that the frame
\* shows with a card of the hand that the frame shows.
C30_OneOperationPerFrame ==
    pc = "frame" =>
        /\ pre.calls <= 1
        /\ pre.closed <= 1
        /\ pre.calls = 1 =>
                /\ last.who = pre.player
                /\ last.loc \in SeqRange(pre.hand)

(***************************************************************************)
(* The game over indistinguishable cards: Game(options, players,           *)
(* locations), then any sequence of place and swap calls of the current    *)
(* player, where every location is the same card and the board is left     *)
(* out. Board.try_place may give any of its outcomes and Board.can_place   *)
(* any answer, so that the sizes of deck and hands go through every value  *)
(* they can take on a board.                                               *)
(***************************************************************************)
\* Largest deck handed to Game.__init__ in the game over equal cards.
MaxCards == 8
\* Calls are not issued after this many completed calls.
MaxCalls == 10

Card == 1
Cards(k) == [i \in 1..k |-> Card]

\* The lists Board.try_place returns when it does not raise.
TryPlaceLists == {<<>>, <<LONGITUDE>>, <<LATITUDE>>, <<LONGITUDE, LATITUDE>>}

\* `[l for l in locs if self.board.can_place(l)]` when can_place may give any
\* answer: equal cards make every sublist of j cards the same list.
any_placeable(o, locs) ==
    IF only_sat(o) THEN {SubSeq(locs, 1, j) : j \in 0..Len(locs)} ELSE {locs}

\* Locations.pick(k) for k <= len(self) on a deck of equal cards: whichever k
\* indexes random.sample gives, the returned list is k cards and the deck is
\* left with the others.
equal_pick(d, k) == {[result |-> SubSeq(d, 1, k), deck |-> SubSeq(d, k + 1, Len(d))]}

\* Game.pick(k) on the deck d
RECURSIVE cards_pick(_, _, _, _)
cards_pick(o, d, k, result) ==
    IF k <= 0 THEN {[raised |-> "", result |-> result, deck |-> d]}
    ELSE IF k > Len(d) THEN {[raised |-> "InsufficientSupply", result |-> <<>>, deck |-> d]}
    ELSE UNION {UNION {cards_pick(o, pk.deck, k - Len(pl), result \o pl) :
                            pl \in any_placeable(o, pk.result)} :
                    pk \in equal_pick(d, k)}

\* `for player in self.players: player.deal(self.pick(self.options.initial()))`
RECURSIVE cards_deal(_, _, _, _)
cards_deal(o, d, hs, i) ==
    IF i > Len(hs) THEN {[raised |-> "", deck |-> d, hands |-> hs]}
    ELSE UNION {
        IF pk.raised /= ""
        THEN {[raised |-> pk.raised, deck |-> pk.deck, hands |-> hs]}
        ELSE cards_deal(o, pk.deck, [hs EXCEPT ![i] = pk.result], i + 1)
        : pk \in cards_pick(o, d, o.initial_cities, <<>>)}

\* The options of the game over equal cards: every legal 'initial cities',
\* the smallest 'stop drawing', 'only sat' on and off.
CardOptions ==
    {[DefaultOptions EXCEPT !.stop_drawing = 4, !.initial_cities = i, !.draw_when_fail = f,
                            !.draw_per_mistake = m, !.only_sat = s] :
        i \in InitialChoices,
        f \in {v \in DrawWhenFailChoices : v <= MaxDrawWhenFail},
        m \in BOOLEAN, s \in BOOLEAN}

\* `turnLog` holds the size of the deck handed to Game.__init__ and the number
\* of place and swap calls that have returned.
InitCards ==
    /\ opts \in CardOptions
    /\ pc = "cards"
    /\ deck \in {Cards(d) : d \in 1..MaxCards}
    /\ board = NewBoard(None)
    /\ hands \in {[i \in 1..n |-> <<>>] : n \in 1..MaxPlayers}
    /\ placed = [i \in 1..Len(hands) |-> 0]
    /\ turn = 0
    /\ rounds = 0
    /\ last = NoCall
    /\ pre = Snapshot
    /\ turnLog = <<Len(deck), 0>>

\* Game.__init__: the center is picked, then the hands are dealt; a
\* ValueError of Game.pick is logged and the object is returned with the
\* hands dealt so far.
ConstructCards ==
    /\ pc = "cards"
    /\ \E c \in equal_pick(deck, 1) :
       \E out \in cards_deal(opts, c.deck, hands, 1) :
            /\ deck' = out.deck
            /\ hands' = out.hands
    /\ pc' = "dealt"
    /\ last' = Call("init", 0, None, 0, 0, "", <<>>, 0, 0, "")
    /\ pre' = Snapshot
    /\ UNCHANGED <<opts, board, placed, turn, rounds, turnLog>>

\* next_player at the end of a call that returns.
AdvanceCards ==
    /\ turn' = next_turn(turn, Len(hands))
    /\ rounds' = next_rounds(turn, Len(hands), rounds)
    /\ turnLog' = <<turnLog[1], turnLog[2] + 1>>

\* Game.place(current player, card, x, y) where Board.try_place raises
\* (tp_raised) or returns the list tp_result.
PlaceCards(tp_raised, tp_result) ==
    /\ pc = "dealt"
    /\ turnLog[2] < MaxCalls
    /\ pre' = Snapshot
    /\ UNCHANGED <<opts, pc, board>>
    /\ LET p == turn
       IN
       IF tp_raised /= ""
       THEN /\ last' = Call("place", p, None, 0, 0, tp_raised, <<>>, 0, 0, "")
            /\ UNCHANGED <<deck, hands, placed, turn, rounds, turnLog>>
       ELSE IF Card \notin SeqRange(hands[p + 1])
       THEN /\ last' = Call("place", p, Card, 0, 0, "NotInHand", tp_result, 0, 0, "")
            /\ UNCHANGED <<deck, hands, placed, turn, rounds, turnLog>>
       ELSE LET hand1 == hand_remove(hands[p + 1], Card)
                k == to_draw(opts, tp_result, Len(hand1))
            IN  /\ placed' = [placed EXCEPT ![p + 1] = @ + 1]
                /\ \E pk \in cards_pick(opts, deck, k, <<>>) :
                   /\ deck' = pk.deck
                   /\ IF pk.raised = ""
                      THEN /\ last' = Call("place", p, Card, 0, 0, "", tp_result, k, Len(hand1), "")
                           /\ hands' = [hands EXCEPT ![p + 1] = hand1 \o pk.result]
                           /\ AdvanceCards
                      ELSE /\ hands' = [hands EXCEPT ![p + 1] = hand1]
                           /\ last' = Call("place", p, Card, 0, 0, draw_error(opts, pk.raised),
                                           tp_result, k, Len(hand1), "")
                           /\ IF draw_error(opts, pk.raised) = ""
                              THEN AdvanceCards
                              ELSE UNCHANGED <<turn, rounds, turnLog>>

\* Game.swap(current player, card)
SwapCards ==
    /\ pc = "dealt"
    /\ turnLog[2] < MaxCalls
    /\ pre' = Snapshot
    /\ UNCHANGED <<opts, pc, board, placed>>
    /\ LET p == turn
       IN
       IF ~may_swap(opts)
       THEN /\ last' = Call("swap", p, None, 0, 0, "SwapNotAllowed", <<>>, 0, 0, "")
            /\ UNCHANGED <<deck, hands, turn, rounds, turnLog>>
       ELSE \E pk \in cards_pick(opts, deck, 1, <<>>) :
            /\ deck' = pk.deck
            /\ IF pk.raised /= ""
               THEN /\ UNCHANGED hands
                    /\ last' = Call("swap", p, Card, 0, 0, draw_error(opts, pk.raised), <<>>, 1, 0, "")
                    /\ IF draw_error(opts, pk.raised) = ""
                       THEN AdvanceCards
                       ELSE UNCHANGED <<turn, rounds, turnLog>>
               ELSE IF Card \notin SeqRange(hands[p + 1])
               THEN /\ last' = Call("swap", p, Card, 0, 0, "NotInHand", <<>>, 1, 0, "")
                    /\ UNCHANGED <<hands, turn, rounds, turnLog>>
               ELSE /\ last' = Call("swap", p, Card, 0, 0, "", <<>>, 1, 0, "")
                    /\ hands' = [hands EXCEPT ![p + 1] = hand_swap(@, Card, pk.result[1])]
                    /\ AdvanceCards

NextCards ==
    \/ ConstructCards
    \/ PlaceCards("CellOccupied", <<>>)
    \/ \E r \in TryPlaceLists : PlaceCards("", r)
    \/ SwapCards

SpecCards == InitCards /\ [][NextCards]_vars

\* A place or swap call of the game over equal cards that returns.
ReturningCall ==
    /\ \/ \E r \in TryPlaceLists : PlaceCards("", r)
       \/ SwapCards
    /\ last'.raised = ""

\* The game over equal cards with a driver that constructs the game and then
\* keeps issuing calls that return, as long as there is one.
SpecCardsDriven ==
    /\ InitCards /\ [][NextCards]_vars
    /\ WF_vars(ConstructCards)
    /\ WF_vars(ReturningCall)

\* C31: Game.place by the current player on an empty cell with a location
\* that is not in their hand raises NotInHand and leaves board, hands, placed
\* counters, deck, turn and rounds as they were.
C31_PlaceNotInHand ==
    (/\ GameCall /\ last.op = "place" /\ last.who = pre.turn /\ last.cell = "empty"
     /\ last.loc \notin SeqRange(pre.hands[pre.turn + 1]))
        => /\ last.raised = "NotInHand"
           /\ GameUnchanged

\* C32: Game.swap by the current player, in a game that allows swaps, with a
\* location that is not in their hand raises NotInHand and leaves deck,
\* hands, board, placed counters, turn and rounds as they were.
C32_SwapNotInHand ==
    (/\ GameCall /\ last.op = "swap" /\ last.who = pre.turn /\ opts.may_swap
     /\ last.loc \notin SeqRange(pre.hands[pre.turn + 1]))
        => /\ last.raised = "NotInHand"
           /\ GameUnchanged

\* C33: with 'only sat' disabled, a Game.place call of the current player
\* whose draw asks for more cards than the deck holds raises
\* InsufficientSupply and leaves board, hands, placed counters, deck, turn and
\* rounds as they were.
C33_PlaceAtomic ==
    (/\ GameCall /\ last.op = "place" /\ ~opts.only_sat
     /\ last.who = pre.turn /\ last.loc \in SeqRange(pre.hands[pre.turn + 1])
     /\ last.draw > Len(pre.deck))
        => /\ last.raised = "InsufficientSupply"
           /\ GameUnchanged

\* C34: in every state of a game in which gameover() returns the empty
\* reason the deck holds at least two cards, and a Game.swap call made in such
\* a state, with 'only sat' disabled and 'may swap' enabled, by the current
\* player with a card of their hand completes without InsufficientSupply.
C34_SwapHasSupply ==
    /\ (pc = "playing" /\ game_gameover = "") => Len(deck) >= 2
    /\ (/\ GameCall /\ last.op = "swap" /\ GameoverIn(pre) = ""
        /\ ~opts.only_sat /\ opts.may_swap
        /\ last.who = pre.turn /\ last.loc \in SeqRange(pre.hands[pre.turn + 1]))
            => /\ last.raised = ""
               /\ Len(deck) = Len(pre.deck) - 1

\* A swap of a card of the hand made while the game was not over.
C34_Witness ==
    /\ GameCall /\ last.op = "swap" /\ GameoverIn(pre) = ""
    /\ ~opts.only_sat /\ opts.may_swap
    /\ last.who = pre.turn /\ last.loc \in SeqRange(pre.hands[pre.turn + 1])
    /\ last.raised = ""

\* A Game.place call of the game over equal cards that reached Player.play.
CardsPlayed == pc = "dealt" /\ last.op = "place" /\ last.raised \notin {"CellOccupied", "NotInHand"}

Max(a, b) == IF a >= b THEN a ELSE b

\* C35: in a game constructed with legal option values, a Game.place call
\* that returns the empty list leaves the deck as it was and the player's hand
\* exactly one card smaller, and the draw count that Game.place hands to
\* Game.pick is never negative and is zero after a correct placement.
C35_CorrectDrawsNothing ==
    CardsPlayed =>
        /\ last.draw >= 0
        /\ (last.raised = "" /\ last.result = <<>>) =>
                /\ last.draw = 0
                /\ deck = pre.deck
                /\ Len(hands[pre.turn + 1]) = Len(pre.hands[pre.turn + 1]) - 1
                /\ \A i \in 1..Len(hands) : i /= pre.turn + 1 => hands[i] = pre.hands[i]

\* A correct placement from a hand that is larger than 'stop drawing'.
C35_Witness ==
    /\ CardsPlayed /\ last.raised = "" /\ last.result = <<>>
    /\ Len(pre.hands[pre.turn + 1]) > opts.stop_drawing
    /\ Len(pre.deck) > 0

\* C36: in every state of a constructed game every player's hand holds at
\* most max('initial cities', 'stop drawing') cards.
C36_HandBound ==
    pc = "dealt" =>
        \A i \in 1..Len(hands) : Len(hands[i]) <= Max(opts.initial_cities, opts.stop_drawing)

\* A wrong placement whose draw was cut by 'stop drawing' and filled the hand.
C36_Witness ==
    /\ CardsPlayed /\ last.raised = "" /\ Len(last.result) > 0
    /\ last.draw > 0
    /\ last.draw < to_draw_nocap(opts, last.result, last.hand)
    /\ last.draw < Len(pre.deck)
    /\ Len(hands[pre.turn + 1]) = opts.stop_drawing

\* C37: in a game built from a deck of pairwise distinct locations, no
\* location occurs more than once across the deck, the hands and the board
\* cells, in any state.
C37_NoDuplication ==
    pc = "playing" => \A l \in Locs : Owners(Snapshot, l) <= 1

\* C38: every Game.place or Game.swap call, whether it returns or raises,
\* leaves every cell that held a location before the call holding the same
\* location, so that board.placed() never decreases and the center is never
\* replaced.
C38_CommittedCellsStay ==
    GameCall =>
        /\ \A c \in Cells : pre.board[c] /= None => board[c] = pre.board[c]
        /\ board_placed(board) >= board_placed(pre.board)

\* A Game.place call on an occupied cell of a board that holds a committed
\* location besides the center.
C38_Witness ==
    /\ GameCall /\ last.op = "place" /\ last.cell = "occupied"
    /\ board_placed(pre.board) >= 2

\* Deck size plus the sum of the hand sizes in game state g.
Measure(g) == Len(g.deck) + SumSeq([i \in 1..Len(g.hands) |-> Len(g.hands[i])])

\* The 'deck exhausted' condition of Options_.gameover in game state g.
DeckExhausted(g) == Len(g.deck) - opts.empty_deck <= Len(g.hands)

\* Every call that returns makes deck size plus hand sizes strictly smaller,
\* or was made in a state where 'deck exhausted' held already; and a game
\* that is not over has seen at most as many returning calls as the deck
\* handed to Game.__init__ had locations.
C39_Decreases ==
    pc = "dealt" =>
        /\ (last.op \in {"place", "swap"} /\ last.raised = "")
                => (Measure(Snapshot) < Measure(pre) \/ DeckExhausted(pre))
        /\ game_gameover = "" => turnLog[2] <= turnLog[1]

\* C39: every game ends. When the driver keeps issuing place and swap calls
\* that return, gameover() eventually gives a non-empty reason; every
\* returning call strictly decreases deck size plus hand sizes or is made with
\* the deck exhausted, and the number of returning calls before the game is
\* over is at most the size of the initial deck.
C39_EveryGameEnds ==
    /\ []C39_Decreases
    /\ <>(pc = "dealt" /\ game_gameover /= "")

\* A returning call made while the game was not over, which ended it.
C39_Witness ==
    /\ pc = "dealt" /\ last.op \in {"place", "swap"} /\ last.raised = ""
    /\ GameoverIn(pre) = "" /\ game_gameover /= ""
    /\ turnLog[2] >= 2

====
